---- MODULE Spec2Model ----
(***************************************************************************)
(* Article store of TechPulse (src/api/utils/feedStorage.ts, storage v2):  *)
(* a global Index document, the current-period document, the weekly        *)
(* archive documents and the legacy single-file document, with the public  *)
(* operations saveArticles, getAllArticles, archivePreviousMonth,          *)
(* deleteArticle and clearAllArticles.                                     *)
(*                                                                         *)
(* Time is counted in ticks since an epoch that starts a year, a month and *)
(* a week; a month is MonthLen ticks long.  The host's timezone offset is  *)
(* a whole number of ticks, fixed for a run.                               *)
(***************************************************************************)
EXTENDS Integers, Sequences, FiniteSets, TLC

\* ------------------------------------------------------------------ bounds
MonthLen == 2
StartMonth == 10
MaxMonth == 11
MaxBatch == 2
MaxCalls == 3
CacheMaxSize == 2
CacheTtl == 1
MaxIds == 2

\* ------------------------------------------------------- program constants
DaysPerWeek == 7
MonthsPerYear == 12
HashShift == 5
Radix == 36
Int32Max == 2147483647
PadWidth == 2

\* --------------------------------------------------------- generic helpers
Range(s) == {s[i] : i \in 1..Len(s)}

RECURSIVE SumOver(_, _)
SumOver(f, S) == IF S = {} THEN 0
                 ELSE LET x == CHOOSE y \in S : TRUE
                      IN f[x] + SumOver(f, S \ {x})

SumValues(f) == SumOver(f, DOMAIN f)

EmptyMap == [x \in {} |-> 0]

\* JS: obj[k] = (obj[k] || 0) + 1
Incr(f, k) == [x \in (DOMAIN f) \cup {k} |->
                 IF x = k THEN (IF k \in DOMAIN f THEN f[k] ELSE 0) + 1 ELSE f[x]]

\* JS: if (obj[k]) { obj[k]--; if (obj[k] === 0) delete obj[k]; }
Decr(f, k) == IF k \in DOMAIN f /\ f[k] # 0
              THEN IF f[k] - 1 = 0
                   THEN [x \in (DOMAIN f) \ {k} |-> f[x]]
                   ELSE [f EXCEPT ![k] = f[k] - 1]
              ELSE f

\* Array.prototype.sort with (a, b) => b.savedAt - a.savedAt: stable, newest first
RECURSIVE InsertBySavedAtDesc(_, _)
InsertBySavedAtDesc(sorted, a) ==
  IF sorted = <<>> THEN <<a>>
  ELSE IF Head(sorted).savedAt >= a.savedAt
       THEN <<Head(sorted)>> \o InsertBySavedAtDesc(Tail(sorted), a)
       ELSE <<a>> \o sorted

RECURSIVE SortBySavedAtDesc(_)
SortBySavedAtDesc(s) ==
  IF s = <<>> THEN <<>>
  ELSE InsertBySavedAtDesc(SortBySavedAtDesc(SubSeq(s, 1, Len(s) - 1)), s[Len(s)])

\* ----------------------------------------------------------- dates and keys
\* Date.prototype.toISOString().slice(0, 7): the UTC year and month, "YYYY-MM"
getMonthKey(t) == <<(t \div MonthLen) \div MonthsPerYear,
                    ((t \div MonthLen) % MonthsPerYear) + 1>>

\* String comparison of two "YYYY-MM" keys
MonthKeyLess(a, b) == a[1] < b[1] \/ (a[1] = b[1] /\ a[2] < b[2])

\* Local wall-clock reading of the instant t on a host at offset tz
LocalTime(t, tz) == t + tz

\* new Date(y, m, 1) for the local month with index k: the instant of its local midnight
LocalMonthStart(k, tz) == k * MonthLen - tz

\* date.getDate(): local day of the month, from 1
getDate(t, tz) == (LocalTime(t, tz) % MonthLen) + 1

\* firstDay.getDay(): local weekday of the first day of the local month of t
FirstDayOfMonthGetDay(t, tz) ==
  ((LocalTime(t, tz) \div MonthLen) * MonthLen) % DaysPerWeek

\* Math.ceil((date.getDate() + firstDay.getDay()) / 7)
getWeekOfMonth(t, tz) ==
  (getDate(t, tz) + FirstDayOfMonthGetDay(t, tz) + DaysPerWeek - 1) \div DaysPerWeek

\* String(n).padStart(2, '0') for n >= 0
RECURSIVE ZeroPad(_, _)
ZeroPad(s, width) == IF Len(s) >= width THEN s ELSE ZeroPad(<<0>> \o s, width)

RECURSIVE Digits(_, _)
Digits(n, radix) == IF n < radix THEN <<n>>
                    ELSE Digits(n \div radix, radix) \o <<n % radix>>

\* `week-${String(weekNum).padStart(2, '0')}.json`
WeekFileName(weekNum) == <<"week-", ZeroPad(Digits(weekNum, 10), PadWidth), ".json">>

\* ----------------------------------------------------------------- the hash
\* x & x, x << n: conversion of a JS number to a signed 32-bit integer
ToInt32(x) == IF x > Int32Max THEN x - Int32Max - Int32Max - 2
              ELSE IF x < -Int32Max - 1 THEN x + Int32Max + Int32Max + 2
              ELSE x

Abs(x) == IF x < 0 THEN -x ELSE x

RECURSIVE HashLoop(_, _)
HashLoop(hash, chars) ==
  IF chars = <<>> THEN hash
  ELSE HashLoop(ToInt32((ToInt32(hash * (2 ^ HashShift)) - hash) + Head(chars)), Tail(chars))

\* `art_${Math.abs(hash).toString(36)}`
generateArticleId(link) == <<"art_", Digits(Abs(HashLoop(0, link)), Radix)>>

\* ------------------------------------------------------------------- slugs
\* Characters are one-token strings; E_ACUTE / e_acute are the precomposed
\* accented letters and COMBINING_ACUTE is U+0301.
UpperChars == <<"A", "D", "H", "I", "W", "E_ACUTE">>
LowerChars == <<"a", "d", "h", "i", "w", "e_acute">>
AlnumChars == {"a", "d", "e", "h", "i", "t", "w", "0", "1"}
CombiningMarks == {"COMBINING_ACUTE"}

\* String.prototype.toLowerCase, one character
LowerChar(c) == IF \E i \in 1..Len(UpperChars) : UpperChars[i] = c
                THEN LowerChars[CHOOSE i \in 1..Len(UpperChars) : UpperChars[i] = c]
                ELSE c

\* String.prototype.normalize('NFD'), one character
DecomposeChar(c) == IF c = "e_acute" THEN <<"e", "COMBINING_ACUTE">>
                    ELSE IF c = "E_ACUTE" THEN <<"E", "COMBINING_ACUTE">>
                    ELSE <<c>>

RECURSIVE FlatMapChars(_, _)
FlatMapChars(F(_), s) == IF s = <<>> THEN <<>>
                         ELSE F(Head(s)) \o FlatMapChars(F, Tail(s))

ToLowerCase(s) == [i \in 1..Len(s) |-> LowerChar(s[i])]
NormalizeNFD(s) == FlatMapChars(DecomposeChar, s)
IsNotCombining(c) == c \notin CombiningMarks
StripCombining(s) == SelectSeq(s, IsNotCombining)

\* .replace(/[^a-z0-9]+/g, '-')
RECURSIVE ReplaceNonAlnumRuns(_)
ReplaceNonAlnumRuns(s) ==
  IF s = <<>> THEN <<>>
  ELSE IF Head(s) \in AlnumChars THEN <<Head(s)>> \o ReplaceNonAlnumRuns(Tail(s))
  ELSE IF Len(s) > 1 /\ s[2] \notin AlnumChars THEN ReplaceNonAlnumRuns(Tail(s))
  ELSE <<"-">> \o ReplaceNonAlnumRuns(Tail(s))

\* .replace(/(^-|-$)/g, '')
TrimDashes(s) ==
  LET a == IF s # <<>> /\ Head(s) = "-" THEN Tail(s) ELSE s
  IN IF a # <<>> /\ a[Len(a)] = "-" THEN SubSeq(a, 1, Len(a) - 1) ELSE a

slugifyCategory(category) ==
  TrimDashes(ReplaceNonAlnumRuns(StripCombining(NormalizeNFD(ToLowerCase(category)))))

\* ---------------------------------------------------------------- inputs
\* Links are sequences of character codes ("Aa", "BB", "C"); categories are
\* sequences of characters ("IA & Data", "HW").
LinkAa == <<65, 97>>
LinkBB == <<66, 66>>
LinkC == <<67>>
Links == {LinkAa, LinkBB, LinkC}

CatIAData == <<"I", "A", " ", "&", " ", "D", "a", "t", "a">>
CatHW == <<"H", "W">>
Categories == {CatIAData, CatHW}

SourceOf(link) == IF link = LinkC THEN "feedTwo" ELSE "feedOne"

\* the categories the enrichment step may attach to an article of a link
CategoriesOf(link) == IF link = LinkC THEN {CatHW} ELSE {CatIAData}

\* Omit<SavedArticle, 'id' | 'savedAt'>
Candidates ==
  UNION {{[title |-> "t", link |-> l, source |-> SourceOf(l), category |-> c] :
            c \in CategoriesOf(l)} : l \in Links}

RECURSIVE SeqsUpTo(_, _)
SeqsUpTo(S, n) == IF n = 0 THEN {<<>>}
                  ELSE LET shorter == SeqsUpTo(S, n - 1)
                       IN shorter \cup {Append(b, x) : b \in {q \in shorter : Len(q) = n - 1}, x \in S}

Batches == SeqsUpTo(Candidates, MaxBatch) \ {<<>>}

NoMonth == <<>>

\* the value of article.link when the field is absent (undefined): not a
\* string, so not a sequence of char codes
UndefinedLink == <<-1>>

\* the value of article.title when the field is absent or empty
NoTitle == ""

\* ------------------------------------------------------------- documents
VARIABLES clock, tz, legacyFile, indexFile, currentFile, archiveFiles, last, calls

\* the calls of the store in progress in the server processes that share the
\* data directory
VARIABLE inflight

\* classificationCache (a Map in insertion order), the answer of its last
\* call, and for every key the instant and value of its last set
VARIABLES cache, got, lastSet

vars == <<clock, tz, legacyFile, indexFile, currentFile, archiveFiles, last, calls,
          inflight, cache, got, lastSet>>

\* A document is a record: `present` says the file exists, `parses` that
\* JSON.parse accepts its text; the other fields are its content.
\* const initialIndex / freshIndex: IndexData
EmptyIndex ==
  [present |-> TRUE, parses |-> TRUE, totalArticles |-> 0,
   urlIndex |-> [l \in {} |-> 0],
   byCategory |-> EmptyMap, bySource |-> EmptyMap, byMonth |-> EmptyMap,
   archives |-> <<>>]

AbsentIndex == [EmptyIndex EXCEPT !.present = FALSE]

\* const initialCurrent: MonthFile
EmptyMonthFile(month) ==
  [present |-> TRUE, parses |-> TRUE, month |-> month, articles |-> <<>>]

AbsentMonthFile == [EmptyMonthFile(NoMonth) EXCEPT !.present = FALSE]

AbsentLegacy == [present |-> FALSE, parses |-> TRUE, articles |-> <<>>, hasStats |-> FALSE,
                 byCategory |-> EmptyMap, bySource |-> EmptyMap]

\* The files under data/
Disk == [legacy |-> legacyFile, index |-> indexFile, current |-> currentFile,
         archives |-> archiveFiles]

\* articles.reduce((acc, a) => { acc[a.field]++ }, {})
RECURSIVE CountBy(_, _)
CountBy(Field(_), articles) ==
  IF articles = <<>> THEN EmptyMap
  ELSE Incr(CountBy(Field, SubSeq(articles, 1, Len(articles) - 1)),
            Field(articles[Len(articles)]))

CategoryOf(a) == a.category
SourceField(a) == a.source
SavedMonthOf(a) == getMonthKey(a.savedAt)

\* articles.forEach(article => { index.urlIndex[article.link] = {...} })
RECURSIVE IndexUrls(_, _)
IndexUrls(urlIndex, articles) ==
  IF articles = <<>> THEN urlIndex
  ELSE LET a == Head(articles)
           entry == [fileDate |-> getMonthKey(a.savedAt), savedAt |-> a.savedAt]
       IN IndexUrls([l \in (DOMAIN urlIndex) \cup {a.link} |->
                        IF l = a.link THEN entry ELSE urlIndex[l]],
                    Tail(articles))

\* legacyData.stats?.byCategory || {}
MigratedByCategory(legacy) == IF legacy.hasStats THEN legacy.byCategory ELSE EmptyMap
\* legacyData.stats?.bySource || {}
MigratedBySource(legacy) == IF legacy.hasStats THEN legacy.bySource ELSE EmptyMap

migrateFromLegacy(d, now) ==
  LET articles == d.legacy.articles
      index == [present |-> TRUE, parses |-> TRUE,
                totalArticles |-> Len(articles),
                urlIndex |-> IndexUrls([l \in {} |-> 0], articles),
                byCategory |-> MigratedByCategory(d.legacy),
                bySource |-> MigratedBySource(d.legacy),
                byMonth |-> CountBy(SavedMonthOf, articles),
                archives |-> <<>>]
      currentData == [present |-> TRUE, parses |-> TRUE, month |-> getMonthKey(now),
                      articles |-> articles]
  IN IF d.legacy.parses
     THEN [d EXCEPT !.index = index, !.current = currentData, !.legacy = AbsentLegacy]
     \* JSON.parse throws: the catch logs the error, nothing is written
     ELSE d

initStorage(d, now) ==
  IF d.legacy.present /\ ~d.index.present
  THEN migrateFromLegacy(d, now)
  ELSE LET d1 == IF ~d.index.present THEN [d EXCEPT !.index = EmptyIndex] ELSE d
       IN IF ~d1.current.present
          THEN [d1 EXCEPT !.current = EmptyMonthFile(getMonthKey(now))]
          ELSE d1

\* returns the disk left by initStorage and the parsed index
loadIndex(d, now) ==
  LET d1 == initStorage(d, now)
  IN [disk |-> d1, index |-> IF d1.index.present /\ d1.index.parses
                             THEN d1.index ELSE EmptyIndex]

\* mutant: the index is never written back
saveIndex_skips(d, index) == d

saveIndex(d, index) ==
  [d EXCEPT !.index = [index EXCEPT !.present = TRUE, !.parses = TRUE]]

\* mutant: JSON.parse outside the try, the text of the file is used as it is
loadArticlesFile_noCatch(file) == IF file.present THEN file ELSE EmptyMonthFile(NoMonth)

\* !fs.existsSync(filePath) or a JSON.parse that throws: no articles
loadArticlesFile(file) ==
  IF file.present /\ file.parses THEN file ELSE EmptyMonthFile(NoMonth)

saveArticlesFile(file) == [file EXCEPT !.present = TRUE, !.parses = TRUE]

\* mutant: the dedup lookup never finds a link
isKnownLink_never(index, link) == FALSE

\* link in index.urlIndex
isKnownLink(index, link) == link \in DOMAIN index.urlIndex

articleExists(d, now, link) == isKnownLink(loadIndex(d, now).index, link)

\* ------------------------------------------------------------ saveArticles
\* mutant: the saved link is not entered in the dedup index
indexAfterSave_noUrl(index, article, now) ==
  [index EXCEPT
     !.byCategory = Incr(index.byCategory, article.category),
     !.bySource = Incr(index.bySource, article.source),
     !.byMonth = Incr(index.byMonth, getMonthKey(now)),
     !.totalArticles = index.totalArticles + 1]

\* index.urlIndex[link] = {...}; the three stats ++; index.totalArticles++
indexAfterSave(index, article, now) ==
  [index EXCEPT
     !.urlIndex = [l \in (DOMAIN index.urlIndex) \cup {article.link} |->
                     IF l = article.link
                     THEN [fileDate |-> getMonthKey(now), savedAt |-> now]
                     ELSE index.urlIndex[l]],
     !.byCategory = Incr(index.byCategory, article.category),
     !.bySource = Incr(index.bySource, article.source),
     !.byMonth = Incr(index.byMonth, getMonthKey(now)),
     !.totalArticles = index.totalArticles + 1]

\* const savedArticle = {...article, id, savedAt, savedBy}
makeSavedArticle(article, now, savedBy) ==
  [id |-> generateArticleId(article.link), title |-> article.title,
   link |-> article.link, source |-> article.source,
   category |-> article.category, savedAt |-> now, savedBy |-> savedBy]

\* for (const article of articles) { ... }
RECURSIVE saveLoop(_, _, _, _)
saveLoop(acc, articles, now, savedBy) ==
  IF articles = <<>> THEN acc
  ELSE LET article == Head(articles)
       IN IF isKnownLink(acc.index, article.link)
          THEN saveLoop([acc EXCEPT !.duplicates = acc.duplicates + 1],
                        Tail(articles), now, savedBy)
          ELSE IF article.link = UndefinedLink
          \* generateArticleId(undefined): link.length throws a TypeError
          THEN [acc EXCEPT !.raised = TRUE]
          ELSE saveLoop([index |-> indexAfterSave(acc.index, article, now),
                         articles |-> Append(acc.articles,
                                             makeSavedArticle(article, now, savedBy)),
                         saved |-> acc.saved + 1,
                         duplicates |-> acc.duplicates,
                         raised |-> FALSE],
                        Tail(articles), now, savedBy)

\* mutant: the two documents are written whether or not a record was saved
saveArticles_writesAlways(d, now, articles, savedBy) ==
  LET li == loadIndex(initStorage(d, now), now)
      currentData == loadArticlesFile(li.disk.current)
      acc == saveLoop([index |-> li.index, articles |-> currentData.articles,
                       saved |-> 0, duplicates |-> 0, raised |-> FALSE],
                      articles, now, savedBy)
      written == [currentData EXCEPT !.articles = SortBySavedAtDesc(acc.articles),
                                     !.month = getMonthKey(now)]
  IN IF acc.raised
     \* the exception leaves the loop and the function: nothing is written
     \* after initStorage, nothing is returned
     THEN [disk |-> li.disk, saved |-> 0, duplicates |-> 0,
           total |-> li.index.totalArticles, raised |-> TRUE, written |-> {}]
     ELSE [disk |-> saveIndex([li.disk EXCEPT !.current = saveArticlesFile(written)],
                              acc.index),
           saved |-> acc.saved, duplicates |-> acc.duplicates,
           total |-> acc.index.totalArticles, raised |-> FALSE,
           written |-> {"current", "index"}]

\* saveArticles
saveArticles(d, now, articles, savedBy) ==
  LET li == loadIndex(initStorage(d, now), now)
      currentData == loadArticlesFile(li.disk.current)
      acc == saveLoop([index |-> li.index, articles |-> currentData.articles,
                       saved |-> 0, duplicates |-> 0, raised |-> FALSE],
                      articles, now, savedBy)
      written == [currentData EXCEPT !.articles = SortBySavedAtDesc(acc.articles),
                                     !.month = getMonthKey(now)]
  IN IF acc.raised
     \* the exception leaves the loop and the function: nothing is written
     \* after initStorage, nothing is returned
     THEN [disk |-> li.disk, saved |-> 0, duplicates |-> 0,
           total |-> li.index.totalArticles, raised |-> TRUE, written |-> {}]
     ELSE [disk |-> IF acc.saved > 0
                    THEN saveIndex([li.disk EXCEPT !.current = saveArticlesFile(written)],
                                   acc.index)
                    ELSE li.disk,
           saved |-> acc.saved, duplicates |-> acc.duplicates,
           total |-> acc.index.totalArticles, raised |-> FALSE,
           \* saveArticlesFile and saveIndex each assign lastUpdated
           written |-> IF acc.saved > 0 THEN {"current", "index"} ELSE {}]

\* ---------------------------------------------------- archivePreviousMonth
\* getMonthKey(new Date(now.getFullYear(), now.getMonth() - 1, 1))
prevMonthKeyOf(now, zone) ==
  getMonthKey(LocalMonthStart((LocalTime(now, zone) \div MonthLen) - 1, zone))

\* index.archives.sort((a, b) => b.month.localeCompare(a.month))
RECURSIVE InsertArchiveDesc(_, _)
InsertArchiveDesc(sorted, e) ==
  IF sorted = <<>> THEN <<e>>
  ELSE IF MonthKeyLess(Head(sorted).month, e.month)
       THEN <<e>> \o sorted
       ELSE <<Head(sorted)>> \o InsertArchiveDesc(Tail(sorted), e)

RECURSIVE SortArchivesDesc(_)
SortArchivesDesc(s) ==
  IF s = <<>> THEN <<>>
  ELSE InsertArchiveDesc(SortArchivesDesc(SubSeq(s, 1, Len(s) - 1)), s[Len(s)])

\* Object.entries(byWeek): the week numbers present, ascending
RECURSIVE AscendingSeq(_)
AscendingSeq(S) == IF S = {} THEN <<>>
                   ELSE LET m == CHOOSE x \in S : \A y \in S : x <= y
                        IN <<m>> \o AscendingSeq(S \ {m})

\* mutant: the Period Store keeps every article after archiving
currentMonthArticlesOf_keepsAll(articles, currentMonthKey) == articles

\* the articles kept by the current-month filter
currentMonthArticlesOf(articles, currentMonthKey) ==
  LET IsCurrent(a) == getMonthKey(a.savedAt) = currentMonthKey
  IN SelectSeq(articles, IsCurrent)

\* existingArchive ? replace weeks and count : push and sort
archivesAfter(archives, prevMonthKey, weeks, count) ==
  IF \E i \in 1..Len(archives) : archives[i].month = prevMonthKey
  THEN LET i == CHOOSE j \in 1..Len(archives) :
                  /\ archives[j].month = prevMonthKey
                  /\ \A k \in 1..(j - 1) : archives[k].month # prevMonthKey
       IN [archives EXCEPT ![i] = [month |-> prevMonthKey, weeks |-> weeks,
                                   articleCount |-> count]]
  ELSE SortArchivesDesc(Append(archives, [month |-> prevMonthKey, weeks |-> weeks,
                                          articleCount |-> count]))

\* mutant: archived records are taken off the total
indexAfterArchive_dropsTotal(index, prevMonthKey, weeks, count) ==
  [index EXCEPT !.archives = archivesAfter(index.archives, prevMonthKey, weeks, count),
                !.totalArticles = index.totalArticles - count]

\* the index written back by the archiver
indexAfterArchive(index, prevMonthKey, weeks, count) ==
  [index EXCEPT !.archives = archivesAfter(index.archives, prevMonthKey, weeks, count)]

archivePreviousMonth(d, now, zone) ==
  LET prevMonthKey == prevMonthKeyOf(now, zone)
      currentMonthKey == getMonthKey(now)
      currentData == loadArticlesFile(d.current)
      IsPrev(a) == getMonthKey(a.savedAt) = prevMonthKey
      prevMonthArticles == SelectSeq(currentData.articles, IsPrev)
      currentMonthArticles == currentMonthArticlesOf(currentData.articles, currentMonthKey)
      weekNums == AscendingSeq({getWeekOfMonth(a.savedAt, zone) : a \in Range(prevMonthArticles)})
      WeekArticles(w) == LET InWeek(a) == getWeekOfMonth(a.savedAt, zone) = w
                         IN SelectSeq(prevMonthArticles, InWeek)
      weeks == [i \in 1..Len(weekNums) |-> WeekFileName(weekNums[i])]
      newKeys == {<<prevMonthKey, weeks[i]>> : i \in 1..Len(weeks)}
      written == [k \in (DOMAIN d.archives) \cup newKeys |->
                    IF k \in newKeys
                    THEN LET i == CHOOSE j \in 1..Len(weeks) : weeks[j] = k[2]
                         IN [present |-> TRUE, parses |-> TRUE, month |-> prevMonthKey,
                             articles |-> WeekArticles(weekNums[i])]
                    ELSE d.archives[k]]
      li == loadIndex([d EXCEPT !.archives = written], now)
      index == indexAfterArchive(li.index, prevMonthKey, weeks, Len(prevMonthArticles))
      kept == [currentData EXCEPT !.articles = currentMonthArticles,
                                  !.month = currentMonthKey]
  IN IF Len(prevMonthArticles) = 0
     THEN [disk |-> d, archived |-> 0, month |-> NoMonth, isNull |-> TRUE]
     ELSE [disk |-> [saveIndex(li.disk, index) EXCEPT
                       !.current = saveArticlesFile(kept)],
           archived |-> Len(prevMonthArticles), month |-> prevMonthKey,
           isNull |-> FALSE]

\* ----------------------------------------------------------- deleteArticle
indexAfterDelete(index, article) ==
  [index EXCEPT
     !.urlIndex = [l \in (DOMAIN index.urlIndex) \ {article.link} |-> index.urlIndex[l]],
     !.totalArticles = index.totalArticles - 1,
     !.byCategory = Decr(index.byCategory, article.category),
     !.bySource = Decr(index.bySource, article.source),
     !.byMonth = Decr(index.byMonth, getMonthKey(article.savedAt))]

\* mutant: no early return, the file and the index are written even when no
\* article has the id
deleteArticle_writesAnyway(d, now, id) ==
  LET currentData == loadArticlesFile(d.current)
      HasId(a) == a.id = id
      OtherId(a) == a.id # id
      found == SelectSeq(currentData.articles, HasId)
      d1 == [d EXCEPT !.current =
               saveArticlesFile([currentData EXCEPT
                                   !.articles = SelectSeq(currentData.articles, OtherId)])]
      li == loadIndex(d1, now)
  IN IF found = <<>>
     THEN [disk |-> saveIndex(li.disk, li.index), deleted |-> FALSE]
     ELSE [disk |-> saveIndex(li.disk, indexAfterDelete(li.index, Head(found))),
           deleted |-> TRUE]

deleteArticle(d, now, id) ==
  LET currentData == loadArticlesFile(d.current)
      HasId(a) == a.id = id
      OtherId(a) == a.id # id
      found == SelectSeq(currentData.articles, HasId)
      d1 == [d EXCEPT !.current =
               saveArticlesFile([currentData EXCEPT
                                   !.articles = SelectSeq(currentData.articles, OtherId)])]
      li == loadIndex(d1, now)
  IN IF found = <<>>
     THEN [disk |-> d, deleted |-> FALSE]
     ELSE [disk |-> saveIndex(li.disk, indexAfterDelete(li.index, Head(found))),
           deleted |-> TRUE]

\* -------------------------------------------------------- clearAllArticles
\* mutant: the archive directory is left in place
clearAllArticles_keepsArchives(d, now) ==
  initStorage(saveIndex([d EXCEPT !.current = AbsentMonthFile], EmptyIndex), now)

clearAllArticles(d, now) ==
  initStorage(saveIndex([d EXCEPT !.current = AbsentMonthFile,
                                  !.archives = [k \in {} |-> AbsentMonthFile]],
                        EmptyIndex), now)

\* ------------------------------------------------ router.delete('/clear')
\* values of a field of a JSON request body, by type and text
JsonTrue == [type |-> "boolean", text |-> "true"]
JsonFalse == [type |-> "boolean", text |-> "false"]
JsonStringTrue == [type |-> "string", text |-> "true"]
JsonOne == [type |-> "number", text |-> "1"]
JsonUndefined == [type |-> "undefined", text |-> ""]

\* what a caller may send as `confirm`
ConfirmValues == {JsonTrue, JsonFalse, JsonStringTrue, JsonOne, JsonUndefined}

\* mutant: the guard is `if (!confirm)`, any truthy value confirms
routerDeleteClear_truthy(d, now, confirm) ==
  IF confirm \in {JsonFalse, JsonUndefined}
  THEN [disk |-> d, status |-> 400]
  ELSE [disk |-> clearAllArticles(d, now), status |-> 200]

\* if (confirm !== true) return res.status(400)...; clearAllArticles()
routerDeleteClear(d, now, confirm) ==
  IF confirm # JsonTrue
  THEN [disk |-> d, status |-> 400]
  ELSE [disk |-> clearAllArticles(d, now), status |-> 200]

\* ---------------------------------------------------------- getAllArticles
NoDate == -1
NoCategory == <<>>
NoLimit == 0

\* while (year < endYear || (year === endYear && month <= endM)) { ... }
RECURSIVE monthsFrom(_, _, _, _)
monthsFrom(year, month, endYear, endM) ==
  IF year < endYear \/ (year = endYear /\ month <= endM)
  THEN <<<<year, month>>>> \o
       (IF month + 1 > MonthsPerYear
        THEN monthsFrom(year + 1, 1, endYear, endM)
        ELSE monthsFrom(year, month + 1, endYear, endM))
  ELSE <<>>

\* mutant: the months after startMonth, startMonth itself left out
getMonthsBetween_afterStart(startMonth, endMonth) ==
  LET months == monthsFrom(startMonth[1], startMonth[2], endMonth[1], endMonth[2])
  IN IF months = <<>> THEN <<>> ELSE Tail(months)

getMonthsBetween(startMonth, endMonth) ==
  monthsFrom(startMonth[1], startMonth[2], endMonth[1], endMonth[2])

\* lexicographic order of two week file names (fs.readdirSync order)
RECURSIVE DigitsLess(_, _)
DigitsLess(a, b) ==
  IF a = <<>> THEN b # <<>>
  ELSE IF b = <<>> THEN FALSE
  ELSE IF Head(a) # Head(b) THEN Head(a) < Head(b)
  ELSE DigitsLess(Tail(a), Tail(b))

RECURSIVE SortedNames(_)
SortedNames(S) == IF S = {} THEN <<>>
                  ELSE LET m == CHOOSE x \in S : \A y \in S \ {x} : DigitsLess(x[2], y[2])
                       IN <<m>> \o SortedNames(S \ {m})

RECURSIVE ConcatFiles(_, _, _)
ConcatFiles(archives, month, names) ==
  IF names = <<>> THEN <<>>
  ELSE loadArticlesFile(archives[<<month, Head(names)>>]).articles
       \o ConcatFiles(archives, month, Tail(names))

\* fs.existsSync(archiveDir) ? every week file of the directory : nothing
readArchiveMonth(archives, month) ==
  ConcatFiles(archives, month, SortedNames({k[2] : k \in {q \in DOMAIN archives : q[1] = month}}))

RECURSIVE readArchiveMonths(_, _, _)
readArchiveMonths(archives, months, currentMonth) ==
  IF months = <<>> THEN <<>>
  ELSE (IF Head(months) = currentMonth THEN <<>>
        ELSE readArchiveMonth(archives, Head(months)))
       \o readArchiveMonths(archives, Tail(months), currentMonth)

\* the partitions read for the given options
selectedArticles(d, now, options) ==
  LET currentMonth == getMonthKey(now)
      currentArticles == loadArticlesFile(d.current).articles
  IN IF options.month # NoMonth
     THEN IF options.month = currentMonth
          THEN currentArticles
          ELSE readArchiveMonth(d.archives, options.month)
     ELSE IF options.since # NoDate /\ MonthKeyLess(getMonthKey(options.since), currentMonth)
          THEN currentArticles \o
               readArchiveMonths(d.archives,
                                 getMonthsBetween(getMonthKey(options.since), currentMonth),
                                 currentMonth)
          ELSE currentArticles

\* mutant: since is an exclusive bound
filteredArticles_exclusiveSince(articles, options) ==
  LET InCategory(a) == slugifyCategory(a.category) = ToLowerCase(options.category)
      Since(a) == a.savedAt > options.since
      Until(a) == a.savedAt <= options.until
      byCat == IF options.category # NoCategory THEN SelectSeq(articles, InCategory)
               ELSE articles
      bySince == IF options.since # NoDate THEN SelectSeq(byCat, Since) ELSE byCat
  IN IF options.until # NoDate THEN SelectSeq(bySince, Until) ELSE bySince

filteredArticles(articles, options) ==
  LET InCategory(a) == slugifyCategory(a.category) = ToLowerCase(options.category)
      Since(a) == a.savedAt >= options.since
      Until(a) == a.savedAt <= options.until
      byCat == IF options.category # NoCategory THEN SelectSeq(articles, InCategory)
               ELSE articles
      bySince == IF options.since # NoDate THEN SelectSeq(byCat, Since) ELSE byCat
  IN IF options.until # NoDate THEN SelectSeq(bySince, Until) ELSE bySince

\* mutant: slice(-limit), the last records of the order are kept
limitedArticles_tail(articles, options) ==
  IF options.limit # NoLimit /\ options.limit > 0
  THEN SubSeq(articles, IF options.limit < Len(articles)
                        THEN Len(articles) - options.limit + 1 ELSE 1,
              Len(articles))
  ELSE articles

limitedArticles(articles, options) ==
  IF options.limit # NoLimit /\ options.limit > 0
  THEN SubSeq(articles, 1, IF options.limit < Len(articles) THEN options.limit
                           ELSE Len(articles))
  ELSE articles

getAllArticles(d, now, options) ==
  LET d1 == initStorage(d, now)
  IN [disk |-> d1,
      articles |-> limitedArticles(
                     SortBySavedAtDesc(filteredArticles(selectedArticles(d1, now, options),
                                                        options)),
                     options)]

NoOptions == [month |-> NoMonth, since |-> NoDate, until |-> NoDate,
              category |-> NoCategory, limit |-> NoLimit]

\* the option values a caller may pass
QueryMonths == {NoMonth} \cup {getMonthKey(m * MonthLen) : m \in (StartMonth - 1)..MaxMonth}
QueryDates == {NoDate, (StartMonth - 1) * MonthLen, StartMonth * MonthLen,
               StartMonth * MonthLen + 1}
QueryCategories == {NoCategory, <<"h", "w">>, <<"H", "W">>, <<"i", "a", "-", "d", "a", "t", "a">>}
QueryLimits == {NoLimit, -1, 1, 2}

\* ------------------------------------------------- getStats / getCategories
getStats(d, now) ==
  LET index == loadIndex(d, now).index
  IN [totalSaved |-> index.totalArticles, byCategory |-> index.byCategory,
      bySource |-> index.bySource, byMonth |-> index.byMonth,
      archives |-> index.archives,
      currentMonthCount |-> IF getMonthKey(now) \in DOMAIN index.byMonth
                            THEN index.byMonth[getMonthKey(now)] ELSE 0]

\* getAvailableMonths(): the current month when byMonth counts it, then one
\* row per entry of index.archives
getAvailableMonths(d, now) ==
  LET index == loadIndex(d, now).index
      currentMonth == getMonthKey(now)
      currentCount == IF currentMonth \in DOMAIN index.byMonth
                      THEN index.byMonth[currentMonth] ELSE 0
      ArchiveRow(i) == [month |-> index.archives[i].month,
                        articleCount |-> index.archives[i].articleCount,
                        isArchived |-> TRUE,
                        weeks |-> Len(index.archives[i].weeks)]
  IN (IF currentCount > 0
      THEN <<[month |-> currentMonth, articleCount |-> currentCount,
              isArchived |-> FALSE, weeks |-> 0]>>
      ELSE <<>>)
     \o [i \in 1..Len(index.archives) |-> ArchiveRow(i)]

\* Object.entries(index.stats.byCategory).map(...): the entries, as a set
getCategories(d, now) ==
  LET index == loadIndex(d, now).index
  IN {[name |-> c, slug |-> slugifyCategory(c), count |-> index.byCategory[c]] :
        c \in DOMAIN index.byCategory}

\* what the `|| null` of getCategoryFromSlug returns for no entry and for an
\* entry with an empty name
Null == <<"null">>

\* mutant: the entry is looked up by name, c.name === slug
CategoriesFound_byName(d, now, slug) ==
  LET matching == {c \in getCategories(d, now) : c.name = slug}
  IN {c \in matching : \A o \in matching : o.count <= c.count}

\* categories.find(c => c.slug === slug): getCategories() sorts its entries
\* by count, greatest first, so the entry found has the greatest count of
\* those with the slug; between entries of equal count the key order of
\* byCategory decides, which the Index of the model does not keep
CategoriesFound(d, now, slug) ==
  LET matching == {c \in getCategories(d, now) : c.slug = slug}
  IN {c \in matching : \A o \in matching : o.count <= c.count}

\* found?.name || null: the values the call may return
getCategoryFromSlug(d, now, slug) ==
  LET found == CategoriesFound(d, now, slug)
  IN IF found = {} THEN {Null}
     ELSE {IF c.name = <<>> THEN Null ELSE c.name : c \in found}

\* -------------------------------------------------- router.post('/save')
CatAutre == <<"A", "u", "t", "r", "e">>

\* articles.map((a: any) => ({title: a.title, link: a.link, ...,
\*                             category: a.category || 'Autre', ...}))
formatArticle(a) ==
  [title |-> a.title, link |-> a.link, source |-> a.source,
   category |-> IF a.category = NoCategory THEN CatAutre ELSE a.category]

formattedArticles(articles) == [i \in 1..Len(articles) |-> formatArticle(articles[i])]

\* 400 for an empty array, 500 when saveArticles throws, else its result
routerPostSave(d, now, articles, savedBy) ==
  IF Len(articles) = 0
  THEN [disk |-> d, status |-> 400, saved |-> 0, duplicates |-> 0]
  ELSE LET result == saveArticles(d, now, formattedArticles(articles), savedBy)
       IN [disk |-> result.disk, status |-> IF result.raised THEN 500 ELSE 200,
           saved |-> result.saved, duplicates |-> result.duplicates]

\* a candidate without link and a candidate without title
NoLinkCandidate ==
  [title |-> "t", link |-> UndefinedLink, source |-> SourceOf(LinkAa),
   category |-> CatIAData]
NoTitleCandidate ==
  [title |-> NoTitle, link |-> LinkC, source |-> SourceOf(LinkC), category |-> CatHW]

WellFormed(a) == a.link # UndefinedLink /\ a.title # NoTitle

\* the articles arrays a client may post
BodyCandidates == Candidates \cup {NoLinkCandidate, NoTitleCandidate}
Bodies == SeqsUpTo(BodyCandidates, MaxBatch)

\* ------------------------------------------------- generateCacheKey
\* Ids and cache keys are strings, written as sequences of char codes.
Colon == 58
IdEmpty == <<>>
IdA == <<97>>
IdB == <<98>>
IdAColonsB == <<97, Colon, Colon, 98>>

\* the ids a client may put on the articles of a request: a missing id joins
\* as the empty string
Ids == {IdEmpty, IdA, IdB, IdAColonsB}
IdLists == SeqsUpTo(Ids, MaxIds) \ {<<>>}

\* Array.prototype.sort() without comparator: strings by code units
RECURSIVE InsertString(_, _)
InsertString(sorted, x) ==
  IF sorted = <<>> THEN <<x>>
  ELSE IF DigitsLess(x, Head(sorted)) THEN <<x>> \o sorted
       ELSE <<Head(sorted)>> \o InsertString(Tail(sorted), x)

RECURSIVE SortStrings(_)
SortStrings(s) == IF s = <<>> THEN <<>>
                  ELSE InsertString(SortStrings(Tail(s)), Head(s))

\* Array.prototype.join('::')
RECURSIVE JoinStrings(_)
JoinStrings(s) == IF s = <<>> THEN <<>>
                  ELSE IF Len(s) = 1 THEN s[1]
                  ELSE s[1] \o <<Colon, Colon>> \o JoinStrings(Tail(s))

\* mutant: the ids are joined in the order given
generateCacheKey_unsorted(articleIds) == JoinStrings(articleIds)

\* articleIds.sort().join('::')
generateCacheKey(articleIds) == JoinStrings(SortStrings(articleIds))

\* ------------------------------------------------------------ LRUCache
CacheKeysOf(c) == {c[i].key : i \in 1..Len(c)}

\* this.cache.get(key), for a key the Map has
CacheEntry(c, k) == c[CHOOSE i \in 1..Len(c) : c[i].key = k]

\* this.cache.delete(key)
CacheDelete(c, k) == LET Other(e) == e.key # k IN SelectSeq(c, Other)

\* the value of a cache miss has no content
NoValue == [ids |-> <<>>]

\* mutant: a hit stamps the entry with the time of the get
LRUGet_refreshes(c, k, now) ==
  IF k \notin CacheKeysOf(c) THEN [cache |-> c, isNull |-> TRUE, value |-> NoValue]
  ELSE LET entry == CacheEntry(c, k)
       IN IF now - entry.timestamp > CacheTtl
          THEN [cache |-> CacheDelete(c, k), isNull |-> TRUE, value |-> NoValue]
          ELSE [cache |-> Append(CacheDelete(c, k), [entry EXCEPT !.timestamp = now]),
                isNull |-> FALSE, value |-> entry.value]

\* LRUCache.get
LRUGet(c, k, now) ==
  IF k \notin CacheKeysOf(c) THEN [cache |-> c, isNull |-> TRUE, value |-> NoValue]
  ELSE LET entry == CacheEntry(c, k)
       IN IF now - entry.timestamp > CacheTtl
          THEN [cache |-> CacheDelete(c, k), isNull |-> TRUE, value |-> NoValue]
          ELSE [cache |-> Append(CacheDelete(c, k), entry),
                isNull |-> FALSE, value |-> entry.value]

\* LRUCache.set: `if (firstKey)` is false for the empty string, and for the
\* undefined of an empty Map
LRUSet(c, k, v, now) ==
  LET c1 == IF k \in CacheKeysOf(c) THEN CacheDelete(c, k) ELSE c
      c2 == IF Len(c1) >= CacheMaxSize /\ c1 # <<>> /\ c1[1].key # <<>>
            THEN Tail(c1) ELSE c1
  IN Append(c2, [key |-> k, value |-> v, timestamp |-> now])

\* the classifications computed for the articles of a request: one per id
ClassificationsOf(ids) == [ids |-> ids]

\* ------------------------------------------------------------ the machine
TZOffsets == {-1, 0, 1}
SavedBys == {"manual"}

\* the instant, in the month before the start, at which the legacy (v1)
\* store saved its article
LegacyTime == (StartMonth - 1) * MonthLen

LegacyArticles == {makeSavedArticle(c, LegacyTime, "manual") :
                     c \in {x \in Candidates : x.link = LinkC}}

DistinctLinks(articles) ==
  \A i, j \in 1..Len(articles) : articles[i].link = articles[j].link => i = j

\* saved-articles.json as the v1 store writes it (stats recomputed on every
\* write), or a document without a stats field
LegacyDocs ==
  {[present |-> TRUE, parses |-> TRUE, articles |-> <<a>>, hasStats |-> hs,
    byCategory |-> IF hs THEN CountBy(CategoryOf, <<a>>) ELSE EmptyMap,
    bySource |-> IF hs THEN CountBy(SourceField, <<a>>) ELSE EmptyMap] :
     a \in LegacyArticles, hs \in BOOLEAN}

ArticleIds == {generateArticleId(l) : l \in Links} \cup {<<"art_", <<0>>>>}

\* what a call's record keeps of the call before it
Digest(call) == [op |-> call.op, done |-> call.done]

NoCall == [op |-> "none", done |-> FALSE, saved |-> 0, duplicates |-> 0,
           prev |-> [op |-> "none", done |-> FALSE]]

\* no call in progress in any process, nothing reported yet
Procs == {1, 2}
NoSnapshot == [legacy |-> AbsentLegacy, index |-> AbsentIndex,
               current |-> AbsentMonthFile, archives |-> [k \in {} |-> AbsentMonthFile]]
IdleProc == [pc |-> "idle", op |-> "none", batch |-> <<>>, savedBy |-> "manual",
             snapshot |-> NoSnapshot, at |-> 0]
NoneInFlight == [procs |-> [p \in Procs |-> IdleProc], saved |-> {}, archived |-> {},
                 overlapped |-> FALSE]

\* this.cache = new Map()
EmptyCache == <<>>
NoAnswer == [op |-> "none", key |-> <<>>, ids |-> <<>>, isNull |-> TRUE,
             value |-> NoValue, cached |-> FALSE]
NeverSet == [k \in {} |-> 0]

Init ==
  /\ clock = StartMonth * MonthLen
  /\ tz \in TZOffsets
  /\ legacyFile \in LegacyDocs \cup {AbsentLegacy}
  /\ indexFile = AbsentIndex
  /\ currentFile = AbsentMonthFile
  /\ archiveFiles = [k \in {} |-> AbsentMonthFile]
  /\ last = NoCall
  /\ calls = 0
  /\ inflight = NoneInFlight
  /\ cache = EmptyCache
  /\ got = NoAnswer
  /\ lastSet = NeverSet

WriteDisk(d) ==
  /\ legacyFile' = d.legacy
  /\ indexFile' = d.index
  /\ currentFile' = d.current
  /\ archiveFiles' = d.archives

\* one more call of the store's API, made and finished by one process; the
\* cache is not touched
Called ==
  /\ calls < MaxCalls /\ calls' = calls + 1
  /\ \A p \in DOMAIN inflight.procs : inflight.procs[p].pc = "idle"
  /\ UNCHANGED <<inflight, cache, got, lastSet>>

\* the clock advances between two calls
Tick ==
  /\ calls < MaxCalls
  /\ clock + 1 < (MaxMonth + 1) * MonthLen
  /\ clock' = clock + 1
  /\ UNCHANGED <<tz, legacyFile, indexFile, currentFile, archiveFiles, last, calls,
                 inflight, cache, got, lastSet>>

Save ==
  \E batch \in Batches, savedBy \in SavedBys :
    LET r == saveArticles(Disk, clock, batch, savedBy)
    IN /\ Called
       /\ WriteDisk(r.disk)
       /\ last' = [op |-> "save", done |-> r.saved > 0,
                   saved |-> r.saved, duplicates |-> r.duplicates,
                   prev |-> Digest(last)]
       /\ UNCHANGED <<clock, tz>>

Archive ==
  LET r == archivePreviousMonth(Disk, clock, tz)
  IN /\ Called
     /\ WriteDisk(r.disk)
     /\ last' = [op |-> "archive", done |-> ~r.isNull,
                 saved |-> 0, duplicates |-> 0, prev |-> Digest(last)]
     /\ UNCHANGED <<clock, tz>>

Delete ==
  \E id \in ArticleIds :
    LET r == deleteArticle(Disk, clock, id)
    IN /\ Called
       /\ WriteDisk(r.disk)
       /\ last' = [op |-> "delete", done |-> r.deleted,
                   saved |-> 0, duplicates |-> 0, prev |-> Digest(last)]
       /\ UNCHANGED <<clock, tz>>

Clear ==
  \E confirm \in ConfirmValues :
    LET r == routerDeleteClear(Disk, clock, confirm)
    IN /\ Called
       /\ WriteDisk(r.disk)
       /\ last' = [op |-> "clear", done |-> r.status = 200,
                   saved |-> 0, duplicates |-> 0, prev |-> Digest(last)]
       /\ UNCHANGED <<clock, tz>>

\* the options of the GET routes: none, or one of month, since, until,
\* category and limit
GetOptions ==
  {NoOptions}
    \cup {[NoOptions EXCEPT !.month = m] : m \in QueryMonths \ {NoMonth}}
    \cup {[NoOptions EXCEPT !.since = t] : t \in QueryDates \ {NoDate}}
    \cup {[NoOptions EXCEPT !.until = t] : t \in QueryDates \ {NoDate}}
    \cup {[NoOptions EXCEPT !.category = c] : c \in QueryCategories \ {NoCategory}}
    \cup {[NoOptions EXCEPT !.limit = n] : n \in QueryLimits \ {NoLimit}}

Get ==
  \E options \in GetOptions :
    LET r == getAllArticles(Disk, clock, options)
    IN /\ Called
       /\ WriteDisk(r.disk)
       /\ last' = [op |-> "get", done |-> r.articles # <<>>,
                   saved |-> 0, duplicates |-> 0, prev |-> Digest(last)]
       /\ UNCHANGED <<clock, tz>>

Next == Tick \/ Save \/ Archive \/ Delete \/ Clear \/ Get

Spec == Init /\ [][Next]_vars

\* Between two calls a document is lost or left with text that does not
\* parse (a write cut short, a file removed by hand); counted with the
\* calls, so that MaxCalls bounds the damage as well.
Damage ==
  /\ Called
  /\ \/ /\ indexFile.present
        /\ indexFile' \in {AbsentIndex, [indexFile EXCEPT !.parses = FALSE]}
        /\ UNCHANGED <<currentFile, archiveFiles, legacyFile>>
     \/ /\ currentFile.present
        /\ currentFile' \in {AbsentMonthFile, [currentFile EXCEPT !.parses = FALSE]}
        /\ UNCHANGED <<indexFile, archiveFiles, legacyFile>>
     \/ /\ \E k \in DOMAIN archiveFiles :
             archiveFiles' = [archiveFiles EXCEPT ![k].parses = FALSE]
        /\ UNCHANGED <<indexFile, currentFile, legacyFile>>
     \/ /\ legacyFile.present /\ legacyFile.parses
        /\ legacyFile' = [legacyFile EXCEPT !.parses = FALSE]
        /\ UNCHANGED <<indexFile, currentFile, archiveFiles>>
  /\ last' = [op |-> "damage", done |-> TRUE,
              saved |-> 0, duplicates |-> 0, prev |-> Digest(last)]
  /\ UNCHANGED <<clock, tz>>

\* A host on UTC and a legacy document written by the v1 store (stats
\* present)
InitUTC == Init /\ tz = 0 /\ (legacyFile.present => legacyFile.hasStats)

\* POST /api/feeds/save with any body of the model, malformed candidates
\* included
PostSave ==
  \E body \in Bodies, savedBy \in SavedBys :
    LET r == routerPostSave(Disk, clock, body, savedBy)
    IN /\ Called
       /\ WriteDisk(r.disk)
       /\ last' = [op |-> "save", done |-> r.saved > 0,
                   saved |-> r.saved, duplicates |-> r.duplicates,
                   prev |-> Digest(last)]
       /\ UNCHANGED <<clock, tz>>

\* the store behind its HTTP routes, on a UTC host
NextRoutes == Tick \/ PostSave \/ Archive \/ Delete \/ Clear

SpecRoutes == InitUTC /\ [][NextRoutes]_vars

\* no deletion: the runs in which only migration, save, archive, clear and
\* the queries act
NextArchiver == Tick \/ Save \/ Archive \/ Clear \/ Get

SpecArchiver == InitUTC /\ [][NextArchiver]_vars

\* the store on a UTC host whose documents may be damaged between calls
NextDamage == Tick \/ Save \/ Archive \/ Delete \/ Clear \/ Get \/ Damage

SpecDamage == InitUTC /\ [][NextDamage]_vars

\* category names that differ in case, accents and punctuation, some with
\* the same slug, one with an empty slug
CatHwLower == <<"h", "w">>
CatIADataSlug == <<"i", "a", "-", "d", "a", "t", "a">>
CatEte == <<"E_ACUTE", "t", "e_acute">>
CatAmpersand == <<"&">>
NamedCategories == {CatHW, CatHwLower, CatIAData, CatIADataSlug, CatEte, CatAmpersand}

NamedCandidates ==
  {[title |-> "t", link |-> l, source |-> SourceOf(l), category |-> c] :
     l \in Links, c \in NamedCategories}

\* saveArticles with one candidate of any of these categories
SaveNamed ==
  \E a \in NamedCandidates, savedBy \in SavedBys :
    LET r == saveArticles(Disk, clock, <<a>>, savedBy)
    IN /\ Called
       /\ WriteDisk(r.disk)
       /\ last' = [op |-> "save", done |-> r.saved > 0,
                   saved |-> r.saved, duplicates |-> r.duplicates,
                   prev |-> Digest(last)]
       /\ UNCHANGED <<clock, tz>>

\* the store fed with categories of every spelling
NextCategories == Tick \/ SaveNamed \/ Delete \/ Archive

SpecCategories == InitUTC /\ [][NextCategories]_vars

\* ---------------------------------- two processes on one data directory
\* Inside one Node process a call of the store runs to its end (every fs
\* call is synchronous).  Two server processes started on the same data
\* directory run their calls side by side: a call is then a load step (the
\* reads at its start) and a write step (the writes at its end), and steps
\* of the other process may fall between the two.  No lock file, no rename,
\* no version check stands between them.
OtherLoaded(p) == \E q \in Procs \ {p} : inflight.procs[q].pc = "loaded"

\* the records a call added to the Period Store it loaded
linksAdded(before, r) ==
  {a.link : a \in Range(loadArticlesFile(r.disk.current).articles)}
    \ {a.link : a \in Range(loadArticlesFile(before.current).articles)}

\* mutant: the index is not written at the end of saveArticles
saveWritten_dropsIndex(d, before, r) ==
  [disk |-> IF r.saved > 0 THEN [d EXCEPT !.current = r.disk.current] ELSE d,
   saved |-> r.saved, duplicates |-> r.duplicates, links |-> linksAdded(before, r)]

\* saveArticlesFile(currentFilePath, currentData); saveIndex(index): both
\* documents as computed from what the call loaded (r, from the snapshot
\* `before`), written over what is on disk by now
saveWritten(d, before, r) ==
  [disk |-> IF r.saved > 0
            THEN [d EXCEPT !.current = r.disk.current, !.index = r.disk.index]
            ELSE d,
   saved |-> r.saved, duplicates |-> r.duplicates, links |-> linksAdded(before, r)]

\* what process p writes and returns when its save finishes
saveFinished(p) ==
  saveWritten(Disk, inflight.procs[p].snapshot,
              saveArticles(inflight.procs[p].snapshot, inflight.procs[p].at,
                           inflight.procs[p].batch, inflight.procs[p].savedBy))

\* the end of a save with outcome w
SaveWritten(p, w) ==
  /\ WriteDisk(w.disk)
  /\ last' = [op |-> "save", done |-> w.saved > 0,
              saved |-> w.saved, duplicates |-> w.duplicates,
              prev |-> Digest(last)]
  /\ inflight' = [inflight EXCEPT !.procs[p] = IdleProc,
                                  !.saved = @ \cup w.links]

\* the batches of the racing saves: one candidate each
RaceBatches == {batch \in Batches : Len(batch) = 1}

\* initStorage(); loadIndex(); new Date(); loadArticlesFile(currentFilePath)
SaveLoad ==
  \E p \in Procs, batch \in RaceBatches, savedBy \in SavedBys :
    LET snapshot == loadIndex(initStorage(Disk, clock), clock).disk
    IN /\ inflight.procs[p].pc = "idle"
       /\ calls < MaxCalls /\ calls' = calls + 1
       /\ WriteDisk(snapshot)
       /\ inflight' = [inflight EXCEPT
                         !.procs[p] = [pc |-> "loaded", op |-> "save", batch |-> batch,
                                       savedBy |-> savedBy, snapshot |-> snapshot,
                                       at |-> clock],
                         !.overlapped = @ \/ OtherLoaded(p)]
       /\ UNCHANGED <<clock, tz, last, cache, got, lastSet>>

\* the loop in memory, then the two writes and the return
SaveWrite ==
  \E p \in Procs :
    /\ inflight.procs[p].pc = "loaded" /\ inflight.procs[p].op = "save"
    /\ SaveWritten(p, saveFinished(p))
    /\ UNCHANGED <<clock, tz, calls, cache, got, lastSet>>

\* new Date(); loadArticlesFile(currentFilePath); the two filters; return
\* null when there is nothing to archive
ArchiveLoad ==
  \E p \in Procs :
    LET r == archivePreviousMonth(Disk, clock, tz)
    IN /\ inflight.procs[p].pc = "idle"
       /\ calls < MaxCalls /\ calls' = calls + 1
       /\ IF r.isNull
          THEN /\ last' = [op |-> "archive", done |-> FALSE,
                           saved |-> 0, duplicates |-> 0, prev |-> Digest(last)]
               /\ UNCHANGED inflight
          ELSE /\ inflight' = [inflight EXCEPT
                                 !.procs[p] = [pc |-> "loaded", op |-> "archive",
                                               batch |-> <<>>, savedBy |-> "manual",
                                               snapshot |-> Disk, at |-> clock],
                                 !.overlapped = @ \/ OtherLoaded(p)]
               /\ UNCHANGED last
       /\ UNCHANGED <<clock, tz, legacyFile, indexFile, currentFile, archiveFiles,
                      cache, got, lastSet>>

\* the week files, loadIndex(), saveIndex(index), then the Period Store
\* rewritten from the records the call loaded
ArchiveWrite ==
  \E p \in Procs :
    LET call == inflight.procs[p]
        r == archivePreviousMonth([Disk EXCEPT !.current = call.snapshot.current],
                                  call.at, tz)
        IsArchived(a) == getMonthKey(a.savedAt) = r.month
    IN /\ call.pc = "loaded" /\ call.op = "archive"
       /\ WriteDisk(r.disk)
       /\ last' = [op |-> "archive", done |-> TRUE,
                   saved |-> 0, duplicates |-> 0, prev |-> Digest(last)]
       /\ inflight' = [inflight EXCEPT
                         !.procs[p] = IdleProc,
                         !.archived = @ \cup
                           {a.link : a \in Range(SelectSeq(
                              loadArticlesFile(call.snapshot.current).articles,
                              IsArchived))}]
       /\ UNCHANGED <<clock, tz, calls, cache, got, lastSet>>

NextRace == Tick \/ SaveLoad \/ SaveWrite \/ ArchiveLoad \/ ArchiveWrite

SpecRace == InitUTC /\ [][NextRace]_vars

\* ------------------------------------------- the cache of the categorize route
\* a call of the cache: the store is not touched
CacheCalled ==
  /\ calls < MaxCalls /\ calls' = calls + 1
  /\ UNCHANGED <<clock, tz, legacyFile, indexFile, currentFile, archiveFiles, last,
                 inflight>>

\* lastSet after set(k, v) at the instant now turned cache c into c1: the
\* keys that left the Map are marked as evicted
LastSetAfter(c, c1, k, v, now) ==
  [x \in (DOMAIN lastSet) \cup {k} |->
     IF x = k THEN [at |-> now, value |-> v, evicted |-> FALSE]
     ELSE IF x \in CacheKeysOf(c) \ CacheKeysOf(c1)
          THEN [lastSet[x] EXCEPT !.evicted = TRUE]
          ELSE lastSet[x]]

\* classificationCache.set(cacheKey, allClassifications)
CacheSet ==
  \E ids \in IdLists :
    LET k == generateCacheKey(ids)
        v == ClassificationsOf(ids)
        c1 == LRUSet(cache, k, v, clock)
    IN /\ CacheCalled
       /\ cache' = c1
       /\ got' = [op |-> "set", key |-> k, ids |-> ids, isNull |-> TRUE,
                  value |-> NoValue, cached |-> FALSE]
       /\ lastSet' = LastSetAfter(cache, c1, k, v, clock)

\* the keys a caller may ask for: those of the id lists
CacheKeys == {generateCacheKey(ids) : ids \in IdLists}

\* classificationCache.get(cacheKey)
CacheGet ==
  \E k \in CacheKeys :
    LET r == LRUGet(cache, k, clock)
    IN /\ CacheCalled
       /\ cache' = r.cache
       /\ got' = [op |-> "get", key |-> k, ids |-> <<>>, isNull |-> r.isNull,
                  value |-> r.value, cached |-> FALSE]
       /\ UNCHANGED lastSet

\* POST /api/categorize: the cached classifications on a hit, else the
\* classifications computed for the request, which are then cached
Categorize ==
  \E ids \in IdLists :
    LET k == generateCacheKey(ids)
        r == LRUGet(cache, k, clock)
        v == ClassificationsOf(ids)
        c1 == LRUSet(r.cache, k, v, clock)
    IN /\ CacheCalled
       /\ IF ~r.isNull
          THEN /\ cache' = r.cache
               /\ got' = [op |-> "categorize", key |-> k, ids |-> ids, isNull |-> FALSE,
                          value |-> r.value, cached |-> TRUE]
               /\ UNCHANGED lastSet
          ELSE /\ cache' = c1
               /\ got' = [op |-> "categorize", key |-> k, ids |-> ids, isNull |-> FALSE,
                          value |-> v, cached |-> FALSE]
               /\ lastSet' = LastSetAfter(r.cache, c1, k, v, clock)

InitCache == InitUTC /\ ~legacyFile.present

NextCache == Tick \/ CacheSet \/ CacheGet \/ Categorize

SpecCache == InitCache /\ [][NextCache]_vars

\* ------------------------------------------ a host clock that is set back
\* new Date() reads the wall clock of the host, which a time correction may
\* move backwards between two calls.  The runs of this specification are one
\* call longer than the others: a save, an archive run, a save after the
\* clock was set back, and a second archive run.
RerunCalls == MaxCalls + 1

CalledAgain ==
  /\ calls < RerunCalls /\ calls' = calls + 1
  /\ UNCHANGED <<clock, tz, inflight, cache, got, lastSet>>

\* the wall clock moves one tick, forwards or backwards, not before the
\* month of the legacy records
ClockStep ==
  /\ \E t \in {clock - 1, clock + 1} :
       /\ (StartMonth - 1) * MonthLen <= t /\ t < (MaxMonth + 1) * MonthLen
       /\ clock' = t
  /\ UNCHANGED <<tz, legacyFile, indexFile, currentFile, archiveFiles, last, calls,
                 inflight, cache, got, lastSet>>

SaveAgain ==
  \E batch \in RaceBatches, savedBy \in SavedBys :
    LET r == saveArticles(Disk, clock, batch, savedBy)
    IN /\ CalledAgain
       /\ WriteDisk(r.disk)
       /\ last' = [op |-> "save", done |-> r.saved > 0,
                   saved |-> r.saved, duplicates |-> r.duplicates,
                   prev |-> Digest(last)]

ArchiveAgain ==
  LET r == archivePreviousMonth(Disk, clock, tz)
  IN /\ CalledAgain
     /\ WriteDisk(r.disk)
     /\ last' = [op |-> "archive", done |-> ~r.isNull,
                 saved |-> 0, duplicates |-> 0, prev |-> Digest(last)]

NextRerun == ClockStep \/ SaveAgain \/ ArchiveAgain

SpecRerun == InitUTC /\ [][NextRerun]_vars

\* ------------------------------------- a save stopped between its two writes
\* the process that runs the store
Server == 1

AllProcsIdle == \A p \in Procs : inflight.procs[p].pc = "idle"

\* saveArticlesFile(currentFilePath, currentData) has returned and the
\* process stops before saveIndex(index): the disk holds the new Period
\* Store and the Index as initStorage left it
saveStopped(d, now, articles, savedBy) ==
  LET r == saveArticles(d, now, articles, savedBy)
  IN [r EXCEPT !.disk = [r.disk EXCEPT !.index = loadIndex(d, now).disk.index]]

\* the record of a stopped call: what it was asked to save
StoppedProc(batch, savedBy, now) ==
  [pc |-> "stopped", op |-> "save", batch |-> batch, savedBy |-> savedBy,
   snapshot |-> NoSnapshot, at |-> now]

SaveStopped ==
  \E batch \in Batches, savedBy \in SavedBys :
    LET r == saveStopped(Disk, clock, batch, savedBy)
    IN /\ AllProcsIdle
       /\ calls < MaxCalls /\ calls' = calls + 1
       /\ ~r.raised /\ r.saved > 0
       /\ WriteDisk(r.disk)
       /\ last' = [op |-> "stopped", done |-> FALSE,
                   saved |-> 0, duplicates |-> 0, prev |-> Digest(last)]
       /\ inflight' = [inflight EXCEPT !.procs[Server] = StoppedProc(batch, savedBy, clock)]
       /\ UNCHANGED <<clock, tz, cache, got, lastSet>>

\* the process is started again and the caller repeats the save
SaveRepeated ==
  LET call == inflight.procs[Server]
      r == saveArticles(Disk, clock, call.batch, call.savedBy)
  IN /\ call.pc = "stopped"
     /\ calls < MaxCalls /\ calls' = calls + 1
     /\ WriteDisk(r.disk)
     /\ last' = [op |-> "save", done |-> r.saved > 0,
                 saved |-> r.saved, duplicates |-> r.duplicates,
                 prev |-> Digest(last)]
     /\ inflight' = [inflight EXCEPT !.procs[Server] = IdleProc]
     /\ UNCHANGED <<clock, tz, cache, got, lastSet>>

NextStopped == Tick \/ Save \/ SaveStopped \/ SaveRepeated

SpecStopped == InitUTC /\ [][NextStopped]_vars

LinksIn(articles) == {a.link : a \in Range(articles)}

\* ------------------------------------------ runAutomatedBlogFeedPipeline
\* two runs of the pipeline in the one Node process (the hourly cron and a
\* manual trigger); a run gives way to the other at each await, between its
\* pre-filter and its save, and nowhere inside a call of the store

\* items.filter((item) => !articleExists(item.link)), the calls one after
\* the other on the disk each one leaves
RECURSIVE newItems(_, _, _)
newItems(d, now, items) ==
  IF items = <<>> THEN <<>>
  ELSE IF articleExists(d, now, Head(items).link)
       THEN newItems(loadIndex(d, now).disk, now, Tail(items))
       ELSE <<Head(items)>> \o newItems(loadIndex(d, now).disk, now, Tail(items))

\* mutant: the save works on the storage as the run's pre-filter saw it
loadedBySave_atFilter(d, snapshot) == snapshot

\* initStorage(); loadIndex(); loadArticlesFile(currentFilePath): the storage
\* saveArticles works on is read inside the call, not taken from the run
loadedBySave(d, snapshot) == d

\* another run has passed the pre-filter with one of these links and has
\* not saved yet
OtherFiltered(p, items) ==
  \E q \in Procs \ {p} :
    /\ inflight.procs[q].pc = "filtered"
    /\ LinksIn(inflight.procs[q].batch) \cap LinksIn(items) # {}

\* fetchAndParseRSS, the pre-filter, and the return when nothing is new
PipelineFilter ==
  \E p \in Procs, items \in Batches :
    LET d == loadIndex(Disk, clock).disk
        kept == newItems(Disk, clock, items)
    IN /\ inflight.procs[p].pc = "idle"
       /\ calls < MaxCalls /\ calls' = calls + 1
       /\ WriteDisk(d)
       /\ IF kept = <<>>
          THEN UNCHANGED inflight
          ELSE inflight' = [inflight EXCEPT
                              !.procs[p] = [pc |-> "filtered", op |-> "pipeline",
                                            batch |-> kept, savedBy |-> "auto",
                                            snapshot |-> d, at |-> clock],
                              !.overlapped = @ \/ OtherFiltered(p, kept)]
       /\ last' = [op |-> "filter", done |-> kept # <<>>,
                   saved |-> 0, duplicates |-> 0, prev |-> Digest(last)]
       /\ UNCHANGED <<clock, tz, cache, got, lastSet>>

\* saveArticles(articlesToSave, 'auto'), one synchronous call
PipelineSave ==
  \E p \in Procs :
    LET call == inflight.procs[p]
        r == saveArticles(loadedBySave(Disk, call.snapshot), clock, call.batch, call.savedBy)
    IN /\ call.pc = "filtered"
       /\ WriteDisk(r.disk)
       /\ last' = [op |-> "save", done |-> r.saved > 0,
                   saved |-> r.saved, duplicates |-> r.duplicates,
                   prev |-> Digest(last)]
       /\ inflight' = [inflight EXCEPT !.procs[p] = IdleProc,
                                       !.saved = @ \cup LinksIn(call.batch)]
       /\ UNCHANGED <<clock, tz, calls, cache, got, lastSet>>

NextPipeline == Tick \/ PipelineFilter \/ PipelineSave

SpecPipeline == InitUTC /\ [][NextPipeline]_vars

\* --------------------------------------------- the order of use in LRUCache
\* longer runs of get and set on one cache, with three keys; here lastSet[k]
\* is the number of the last call that set k or got it with success
RecencyCalls == MaxCalls + 2

RecencyIds == {<<IdEmpty>>, <<IdA>>, <<IdB>>}

RecencyCalled ==
  /\ calls < RecencyCalls /\ calls' = calls + 1
  /\ UNCHANGED <<clock, tz, legacyFile, indexFile, currentFile, archiveFiles, last,
                 inflight>>

UsedNow(k) == [x \in (DOMAIN lastSet) \cup {k} |-> IF x = k THEN calls + 1 ELSE lastSet[x]]

\* cache.set(key, value)
RecencySet ==
  \E ids \in RecencyIds :
    /\ RecencyCalled
    /\ cache' = LRUSet(cache, generateCacheKey(ids), ClassificationsOf(ids), clock)
    /\ got' = [op |-> "set", key |-> generateCacheKey(ids), ids |-> ids, isNull |-> TRUE,
               value |-> NoValue, cached |-> FALSE]
    /\ lastSet' = UsedNow(generateCacheKey(ids))

\* cache.get(key)
RecencyGet ==
  \E ids \in RecencyIds :
    LET k == generateCacheKey(ids)
        r == LRUGet(cache, k, clock)
    IN /\ RecencyCalled
       /\ cache' = r.cache
       /\ got' = [op |-> "get", key |-> k, ids |-> <<>>, isNull |-> r.isNull,
                  value |-> r.value, cached |-> FALSE]
       /\ lastSet' = IF r.isNull THEN lastSet ELSE UsedNow(k)

NextRecency == RecencySet \/ RecencyGet

SpecRecency == InitCache /\ [][NextRecency]_vars

\* ------------------------------------------------------- stored records
RECURSIVE ConcatAll(_, _)
ConcatAll(archives, keys) ==
  IF keys = {} THEN <<>>
  ELSE LET k == CHOOSE x \in keys : TRUE
       IN loadArticlesFile(archives[k]).articles \o ConcatAll(archives, keys \ {k})

ArchivedIn(d) == ConcatAll(d.archives, DOMAIN d.archives)
PeriodIn(d) == loadArticlesFile(d.current).articles
StoredIn(d) == PeriodIn(d) \o ArchivedIn(d)
IndexIn(d) == IF d.index.present /\ d.index.parses THEN d.index ELSE EmptyIndex

ArchivedArticles == ArchivedIn(Disk)
PeriodArticles == PeriodIn(Disk)
StoredArticles == StoredIn(Disk)
Index == IndexIn(Disk)

\* a step that is a call of the named operation
IsCall(op) == calls' = calls + 1 /\ last'.op = op

\* ------------------------------------------------------------------ claims

\* C1: no two records stored in the Period Store and the archive week
\* documents together have the same link.
C1_AtMostOncePerLink == DistinctLinks(StoredArticles)

\* a save that refused a duplicate while records sit in both the Period
\* Store and an archive
C1_Witness ==
  /\ last.op = "save" /\ last.duplicates > 0
  /\ ArchivedArticles # <<>> /\ PeriodArticles # <<>>

\* C2: the Index's totalArticles equals the number of records in the Period
\* Store plus the number of records in all archive week documents.
C2_TotalMatchesStored == Index.totalArticles = Len(StoredArticles)

\* C3: archivePreviousMonth only relocates records: the records stored
\* before the call are exactly the records stored after it.
C3_ArchiveOnlyRelocates ==
  [][IsCall("archive") =>
       /\ Range(StoredArticles') = Range(StoredArticles)
       /\ Len(StoredArticles') = Len(StoredArticles)]_vars

\* C4: the totalArticles of the Index is the same before and after a call of
\* archivePreviousMonth, whether it archives or returns null.
C4_ArchiveConservesTotal ==
  [][IsCall("archive") => Index'.totalArticles = Index.totalArticles]_vars

\* an archive call that moved records out of a non-empty store
C4_Witness ==
  /\ last.op = "archive" /\ last.done
  /\ ArchivedArticles # <<>> /\ Index.totalArticles > 0

\* C5: the byCategory counts and the byMonth counts both add up to
\* totalArticles.
C5_StatsConsistent ==
  /\ SumValues(Index.byCategory) = Index.totalArticles
  /\ SumValues(Index.byMonth) = Index.totalArticles

\* the entries getCategories() must return for the stored records
ExpectedCategories ==
  LET byCat == CountBy(CategoryOf, StoredArticles)
  IN {[name |-> c, slug |-> slugifyCategory(c), count |-> byCat[c]] : c \in DOMAIN byCat}

\* C6: byCategory, bySource and byMonth each hold, per key, the number of
\* stored records with that category, source and save month, and
\* getCategories() returns name, slug and that count per category.
C6_StatsExact ==
  /\ Index.byCategory = CountBy(CategoryOf, StoredArticles)
  /\ Index.bySource = CountBy(SourceField, StoredArticles)
  /\ Index.byMonth = CountBy(SavedMonthOf, StoredArticles)
  /\ indexFile.present => getCategories(Disk, clock) = ExpectedCategories

\* a save of one new candidate followed by a save of the same candidate,
\* the second one now or later
SavedTwice(a, later) ==
  LET first == saveArticles(Disk, clock, <<a>>, "manual")
      second == saveArticles(first.disk, later, <<a>>, "manual")
  IN [first |-> first, second |-> second,
      totalBefore |-> getStats(Disk, clock).totalSaved,
      totalAfter |-> getStats(second.disk, later).totalSaved]

\* C7: saving the same new record twice in sequence returns saved=1,
\* duplicates=0 and then saved=0, duplicates=1, and totalArticles grows by
\* exactly 1 over the two calls.
C7_DedupIdempotence ==
  \A a \in Candidates, later \in {clock, clock + 1, clock + MonthLen} :
    ~articleExists(Disk, clock, a.link) =>
      LET r == SavedTwice(a, later)
      IN /\ r.first.saved = 1 /\ r.first.duplicates = 0
         /\ r.second.saved = 0 /\ r.second.duplicates = 1
         /\ r.totalAfter = r.totalBefore + 1

\* a save that stored a record, then a save that found one duplicate and
\* stored nothing
C7_Witness ==
  /\ last.op = "save" /\ last.saved = 0 /\ last.duplicates = 1
  /\ last.prev.op = "save" /\ last.prev.done
  /\ Len(StoredArticles) = 1

Reverse(s) == [i \in 1..Len(s) |-> s[Len(s) + 1 - i]]


\* C8: a batch holding the same new link twice stores one record and
\* returns one saved and one duplicate; the counts and the links stored do
\* not depend on the order of the batch.
C8_WithinBatchDedup ==
  /\ \A a \in Candidates :
       ~articleExists(Disk, clock, a.link) =>
         LET r == saveArticles(Disk, clock, <<a, a>>, "manual")
             IsLink(x) == x.link = a.link
         IN /\ r.saved = 1 /\ r.duplicates = 1
            /\ Len(SelectSeq(StoredIn(r.disk), IsLink)) = 1
  /\ \A batch \in Batches :
       LET r == saveArticles(Disk, clock, batch, "manual")
           q == saveArticles(Disk, clock, Reverse(batch), "manual")
       IN /\ r.saved = q.saved /\ r.duplicates = q.duplicates
          /\ LinksIn(StoredIn(r.disk)) = LinksIn(StoredIn(q.disk))

\* the first call on an empty store returned one saved and one duplicate:
\* the batch held the same link twice
C8_Witness ==
  /\ calls = 1 /\ last.op = "save" /\ last.saved = 1 /\ last.duplicates = 1
  /\ Len(StoredArticles) = 1

\* C9: a second archivePreviousMonth() right after a first one returns null
\* and leaves the Index, the archive week documents and the Period Store
\* unchanged.
C9_ArchiveIdempotence ==
  LET first == archivePreviousMonth(Disk, clock, tz)
      second == archivePreviousMonth(first.disk, clock, tz)
  IN second.isNull /\ second.disk = first.disk

\* an archive call that moved records, then a second one at the same
\* instant that returned null
C9_Witness ==
  /\ clock = StartMonth * MonthLen
  /\ last.op = "archive" /\ ~last.done
  /\ last.prev.op = "archive" /\ last.prev.done
  /\ ArchivedArticles # <<>>

NextMonthKey(k) == IF k[2] = MonthsPerYear THEN <<k[1] + 1, 1>> ELSE <<k[1], k[2] + 1>>

\* C10: after archivePreviousMonth() is called during month M+1, a record
\* saved during month M is returned by getAllArticles({month: M}) and is not
\* returned by getAllArticles().
C10_ArchivedRecordMovesToItsMonth ==
  [][IsCall("archive") =>
       \A r \in Range(PeriodArticles) :
         getMonthKey(clock) = NextMonthKey(getMonthKey(r.savedAt)) =>
           /\ r \in Range(getAllArticles(Disk', clock',
                            [NoOptions EXCEPT !.month = getMonthKey(r.savedAt)]).articles)
           /\ r \notin Range(getAllArticles(Disk', clock', NoOptions).articles)]_vars

\* the candidate a stored record was saved from
CandidateOf(a) ==
  [title |-> a.title, link |-> a.link, source |-> a.source, category |-> a.category]

\* the link of record a is free on disk d: it is unknown to articleExists and
\* a save of a candidate with that link stores it, with the id a had
LinkFreed(d, now, a) ==
  /\ ~articleExists(d, now, a.link)
  /\ LET r == saveArticles(d, now, <<CandidateOf(a)>>, a.savedBy)
     IN /\ r.saved = 1 /\ r.duplicates = 0
        /\ \E b \in Range(PeriodIn(r.disk)) : b.link = a.link /\ b.id = a.id

\* C11: after deleteArticle(id) returned true, the link of every Period
\* Store record the call removed is free: articleExists is false for it and
\* a following save of a candidate with that link returns saved=1,
\* duplicates=0 and stores it with the same id.
C11_DeletionFreesLink ==
  [][(IsCall("delete") /\ last'.done) =>
       \A a \in Range(PeriodArticles) \ Range(PeriodArticles') :
         LinkFreed(Disk', clock', a)]_vars

\* C12: for an id that no Period Store record has (an unknown id, or the id
\* of a record that sits in an archive week document), deleteArticle returns
\* false and leaves every document as it was.
C12_DeleteNotFound ==
  \A id \in ArticleIds :
    (\A a \in Range(PeriodArticles) : a.id # id) =>
      deleteArticle(Disk, clock, id) = [disk |-> Disk, deleted |-> FALSE]

\* a delete that returned false right after an archive run emptied the
\* Period Store: the only stored records are archived ones
C12_Witness ==
  /\ last.op = "delete" /\ ~last.done
  /\ last.prev.op = "archive" /\ last.prev.done
  /\ PeriodArticles = <<>> /\ ArchivedArticles # <<>>

\* C13: after clearAllArticles() the Period Store holds no record, no
\* archive week document and no archive entry is left, the Index is the
\* empty Index, and every link is unknown and can be saved again.
C13_ClearEmptiesStore ==
  (last.op = "clear" /\ last.done) =>
    /\ currentFile.present /\ PeriodArticles = <<>>
    /\ DOMAIN archiveFiles = {}
    /\ indexFile = EmptyIndex
    /\ \A c \in Candidates :
         /\ ~articleExists(Disk, clock, c.link)
         /\ saveArticles(Disk, clock, <<c>>, "manual").saved = 1

\* a clear right after an archive run that had moved records
C13_Witness ==
  /\ last.op = "clear" /\ last.done
  /\ last.prev.op = "archive" /\ last.prev.done

\* C14: a clear request whose confirm field is not the boolean true is
\* answered 400 and leaves the Period Store, the archives and the Index as
\* they were.
C14_ClearNeedsConfirmation ==
  \A confirm \in ConfirmValues \ {JsonTrue} :
    routerDeleteClear(Disk, clock, confirm) = [disk |-> Disk, status |-> 400]

\* a rejected clear request on a store that holds records in the Period
\* Store and in an archive
C14_Witness ==
  /\ last.op = "clear" /\ ~last.done
  /\ PeriodArticles # <<>> /\ ArchivedArticles # <<>>

\* C15: a candidate without link or without title is dropped by save: the
\* call does not fail and gives the counts and the documents that the same
\* batch without its malformed candidates gives (so saved + duplicates is
\* the batch size less the number of malformed candidates).
C15_MalformedRejected ==
  \A body \in Bodies :
    LET r == saveArticles(Disk, clock, formattedArticles(body), "manual")
        g == saveArticles(Disk, clock,
                          formattedArticles(SelectSeq(body, WellFormed)), "manual")
    IN /\ ~r.raised
       /\ r.saved = g.saved /\ r.duplicates = g.duplicates
       /\ r.disk = g.disk

\* the disk with every missing or unparseable Index, Period Store and
\* archive week document replaced by an empty one
AsEmpty(d) ==
  [d EXCEPT !.index = IndexIn(d),
            !.current = loadArticlesFile(d.current),
            !.archives = [k \in DOMAIN d.archives |->
                            IF d.archives[k].parses THEN d.archives[k]
                            ELSE EmptyMonthFile(k[1])]]

\* what the documents of a disk hold for a reader
Content(d) ==
  [index |-> IndexIn(d), period |-> PeriodIn(d),
   archived |-> [k \in DOMAIN d.archives |-> loadArticlesFile(d.archives[k]).articles]]

\* C16: with the Index, the Period Store or an archive week document
\* missing or unparseable (and no legacy file waiting to be migrated),
\* articleExists, saveArticles, getAllArticles, getStats, deleteArticle and
\* archivePreviousMonth return and write what they return and write when
\* that document is a fresh empty Index or a partition without records; none
\* of them raises.
C16_MissingOrCorruptIsEmpty ==
  LET d == Disk
      e == AsEmpty(Disk)
  IN ~(legacyFile.present /\ ~indexFile.present) =>
       /\ \A l \in Links : articleExists(d, clock, l) = articleExists(e, clock, l)
       /\ getStats(d, clock) = getStats(e, clock)
       /\ \A batch \in Batches :
            LET r == saveArticles(d, clock, batch, "manual")
                q == saveArticles(e, clock, batch, "manual")
            IN /\ ~r.raised
               /\ r.saved = q.saved /\ r.duplicates = q.duplicates /\ r.total = q.total
               /\ Content(r.disk) = Content(q.disk)
       /\ \A options \in GetOptions :
            LET r == getAllArticles(d, clock, options)
                q == getAllArticles(e, clock, options)
            IN r.articles = q.articles /\ Content(r.disk) = Content(q.disk)
       /\ \A id \in ArticleIds :
            LET r == deleteArticle(d, clock, id)
                q == deleteArticle(e, clock, id)
            IN r.deleted = q.deleted /\ Content(r.disk) = Content(q.disk)
       /\ LET r == archivePreviousMonth(d, clock, tz)
              q == archivePreviousMonth(e, clock, tz)
          IN /\ r.archived = q.archived /\ r.month = q.month /\ r.isNull = q.isNull
             /\ Content(r.disk) = Content(q.disk)

\* an archive run right after the Index was lost or garbled: it moved
\* records and wrote an Index that counts none, the Index of a fresh store
C16_Witness ==
  /\ last.op = "archive" /\ last.done /\ last.prev.op = "damage"
  /\ ArchivedArticles # <<>> /\ Index.totalArticles = 0

\* category, since and until in every combination, with no month and no
\* limit; the dates are those of the first two instants of the run
FilterDates == {NoDate, StartMonth * MonthLen, StartMonth * MonthLen + 1}
FilterOptions ==
  {[NoOptions EXCEPT !.category = c, !.since = t, !.until = u] :
     c \in QueryCategories, t \in FilterDates, u \in FilterDates}

\* the records of the partitions getAllArticles reads for the options
Selected(options) == selectedArticles(initStorage(Disk, clock), clock, options)

\* the record passes the since and until filters, both bounds included
InPeriod(a, options) ==
  /\ options.since # NoDate => a.savedAt >= options.since
  /\ options.until # NoDate => a.savedAt <= options.until

\* the result holds the selected records that pass Passes, each once
ResultIsExactly(options, Passes(_)) ==
  LET articles == getAllArticles(Disk, clock, options).articles
  IN /\ Range(articles) = {a \in Range(Selected(options)) : Passes(a)}
     /\ Len(articles) = Len(SelectSeq(Selected(options), Passes))

\* C17 as stated: the result holds a selected record exactly when its
\* category slug equals the category filter value and its savedAt lies
\* within since and until, bounds included.
C17_FiltersAsStated ==
  \A options \in FilterOptions :
    LET Passes(a) ==
          /\ options.category # NoCategory =>
               slugifyCategory(a.category) = options.category
          /\ InPeriod(a, options)
    IN ResultIsExactly(options, Passes)

\* C17, amended: the result holds a selected record exactly when its
\* category slug equals the category filter value put in lower case and its
\* savedAt lies within since and until, bounds included.
C17_FiltersExact ==
  \A options \in FilterOptions :
    LET Passes(a) ==
          /\ options.category # NoCategory =>
               slugifyCategory(a.category) = ToLowerCase(options.category)
          /\ InPeriod(a, options)
    IN ResultIsExactly(options, Passes)

\* after a query, a store on which the three filters together keep a
\* record saved at the since instant and at the until instant and drop
\* another selected record
C17_Witness ==
  /\ last.op = "get" /\ last.done
  /\ \E options \in FilterOptions :
       LET articles == getAllArticles(Disk, clock, options).articles
       IN /\ options.category # NoCategory
          /\ \E a \in Range(articles) : a.savedAt = options.since
          /\ \E a \in Range(articles) : a.savedAt = options.until
          /\ Len(articles) < Len(Selected(options))

\* every limit, without since and with a since that reaches into the
\* archives
OrderOptions ==
  {[NoOptions EXCEPT !.limit = n, !.since = t] :
     n \in QueryLimits, t \in {NoDate, (StartMonth - 1) * MonthLen}}

SortedBySavedAtDesc(articles) ==
  \A i, j \in 1..Len(articles) : i < j => articles[i].savedAt >= articles[j].savedAt

\* C18: the result is ordered by savedAt descending; with limit > 0 it is
\* the first `limit` records of the filtered records in that order, so no
\* record left out was saved after a record returned; with any other limit
\* it is all of them.
C18_SortedThenLimited ==
  \A options \in OrderOptions :
    LET articles == getAllArticles(Disk, clock, options).articles
        all == getAllArticles(Disk, clock, [options EXCEPT !.limit = NoLimit]).articles
        filtered == filteredArticles(Selected(options), options)
    IN /\ SortedBySavedAtDesc(all)
       /\ Range(all) = Range(filtered) /\ Len(all) = Len(filtered)
       /\ IF options.limit > 0
          THEN /\ Len(articles) = IF options.limit < Len(all) THEN options.limit
                                  ELSE Len(all)
               /\ articles = SubSeq(all, 1, Len(articles))
               /\ \A a \in Range(articles), b \in Range(all) \ Range(articles) :
                    a.savedAt >= b.savedAt
          ELSE articles = all

\* after a query, a store on which a limit cuts off a record saved before
\* the ones returned
C18_Witness ==
  /\ last.op = "get" /\ last.done
  /\ \E options \in OrderOptions :
       LET articles == getAllArticles(Disk, clock, options).articles
           all == getAllArticles(Disk, clock, [options EXCEPT !.limit = NoLimit]).articles
       IN /\ options.limit > 0 /\ Len(articles) < Len(all)
          /\ \E a \in Range(articles), b \in Range(all) \ Range(articles) :
               a.savedAt > b.savedAt

\* no option, each month alone, each since alone
PartitionOptions ==
  {NoOptions}
    \cup {[NoOptions EXCEPT !.month = m] : m \in QueryMonths \ {NoMonth}}
    \cup {[NoOptions EXCEPT !.since = t] : t \in QueryDates \ {NoDate}}

\* the records of the archive week documents of the months in M
ArchivedInMonths(d, M) ==
  ConcatAll(d.archives, {k \in DOMAIN d.archives : k[1] \in M})

SameRecords(s, t) == Range(s) = Range(t) /\ Len(s) = Len(t)

\* C19: with no month and no since the Period Store alone is read; with
\* since and no month, the Period Store and the archive months from the
\* month of since to the current month, and every stored record saved at or
\* after since is returned; with month, the Period Store if it is the
\* current month and else the week documents of that archive month, none
\* giving the empty list.
C19_PartitionsRead ==
  LET d == initStorage(Disk, clock)
      currentMonth == getMonthKey(clock)
  IN \A options \in PartitionOptions :
       LET articles == getAllArticles(Disk, clock, options).articles
           FromSince(a) == a.savedAt >= options.since
           sinceMonths == {m \in QueryMonths \ {NoMonth} :
                             /\ ~MonthKeyLess(m, getMonthKey(options.since))
                             /\ ~MonthKeyLess(currentMonth, m)}
       IN IF options.month # NoMonth
          THEN IF options.month = currentMonth
               THEN SameRecords(articles, PeriodIn(d))
               ELSE SameRecords(articles, ArchivedInMonths(d, {options.month}))
          ELSE IF options.since # NoDate
          THEN /\ SameRecords(Selected(options),
                              PeriodIn(d) \o ArchivedInMonths(d, sinceMonths))
               /\ SameRecords(articles, SelectSeq(StoredIn(d), FromSince))
          ELSE SameRecords(articles, PeriodIn(d))

\* after a query, a store on which a since reaches a record of an archive
\* and a record of the Period Store, and on which a month has no archive
C19_Witness ==
  /\ last.op = "get" /\ last.done
  /\ \E options \in PartitionOptions :
       LET articles == getAllArticles(Disk, clock, options).articles
       IN /\ options.since # NoDate
          /\ Range(articles) \cap Range(ArchivedArticles) # {}
          /\ Range(articles) \cap Range(PeriodArticles) # {}
  /\ \E m \in QueryMonths \ {NoMonth, getMonthKey(clock)} :
       ArchivedInMonths(Disk, {m}) = <<>>

\* the condition under which initStorage starts the migration
MigrationRuns(d) == d.legacy.present /\ ~d.index.present

\* C20: the legacy file goes away only in a step that starts with the legacy
\* file present and no Index document; a save or a query that starts so
\* leaves no legacy file and an Index document; and once the legacy file is
\* gone it stays gone, so the migration cannot start again, even if the
\* Index is lost later.
C20_MigrationOnce ==
  [][/\ (legacyFile.present /\ ~legacyFile'.present) => MigrationRuns(Disk)
     /\ ((IsCall("save") \/ IsCall("get")) /\ MigrationRuns(Disk)) =>
          ~legacyFile'.present /\ indexFile'.present
     /\ ~legacyFile.present => ~legacyFile'.present /\ ~MigrationRuns(Disk')]_vars

\* C21: migrating a legacy document with record list R leaves exactly the
\* records of R in the Period Store, totalArticles = |R|, a dedup entry for
\* every link of R (a save of any of them is a duplicate), and the three stat
\* maps hold the counts computed from R, whatever stats the document carried.
C21_MigrationRebuildsIndex ==
  (MigrationRuns(Disk) /\ legacyFile.parses) =>
    LET R == legacyFile.articles
        m == migrateFromLegacy(Disk, clock)
    IN /\ PeriodIn(m) = R
       /\ IndexIn(m).totalArticles = Len(R)
       /\ \A a \in Range(R) :
            /\ articleExists(m, clock, a.link)
            /\ LET r == saveArticles(m, clock, <<CandidateOf(a)>>, "manual")
               IN r.saved = 0 /\ r.duplicates = 1
       /\ IndexIn(m).byCategory = CountBy(CategoryOf, R)
       /\ IndexIn(m).bySource = CountBy(SourceField, R)
       /\ IndexIn(m).byMonth = CountBy(SavedMonthOf, R)

\* C22: for every category c of the Index's category statistics,
\* getCategoryFromSlug(slugifyCategory(c)) is not null and is a name whose
\* slug is the slug of c.
C22_SlugRoundTrip ==
  \A c \in {e.name : e \in getCategories(Disk, clock)} :
    \A n \in getCategoryFromSlug(Disk, clock, slugifyCategory(c)) :
      n # Null /\ slugifyCategory(n) = slugifyCategory(c)

\* after a save, an Index that counts two categories of different names and
\* one slug, and a category whose slug is empty
C22_Witness ==
  /\ last.op = "save" /\ last.done
  /\ \E c, e \in DOMAIN Index.byCategory :
       c # e /\ slugifyCategory(c) = slugifyCategory(e)
  /\ \E c \in DOMAIN Index.byCategory : slugifyCategory(c) = <<>>

\* a record reported as saved is not in the Period Store nor in an archive,
\* or has no dedup entry, or a record reported as archived is in the Period
\* Store
LostUpdate ==
  \/ \E l \in inflight.saved : l \notin LinksIn(StoredArticles)
  \/ \E l \in inflight.saved : l \notin DOMAIN Index.urlIndex
  \/ \E l \in inflight.archived : l \in LinksIn(PeriodArticles)

AllIdle == \A p \in Procs : inflight.procs[p].pc = "idle"

\* C23: with two writers (save and save, or save and archivePreviousMonth)
\* whose load and write steps interleave, a final state is reached in which
\* an update is lost (the witness); an update is lost only in runs in which
\* one writer loaded while the other was between its load and its write.
C23_LostOnlyByInterleaving == LostUpdate => inflight.overlapped

\* every call has returned, and a record reported as saved is in neither the
\* Period Store nor an archive
C23_Witness ==
  /\ AllIdle /\ inflight.overlapped
  /\ \E l \in inflight.saved : l \notin LinksIn(StoredArticles)

\* a step that is a call of the cache
IsCacheCall(op) == calls' = calls + 1 /\ last' = last /\ got'.op = op

\* C24: set(k, v) with a new key on a cache that holds maxSize entries
\* evicts exactly the oldest entry, and after every call size() <= maxSize.
C24_CapacityKept ==
  [][/\ (IsCacheCall("set") /\ got'.key \notin CacheKeysOf(cache)
           /\ Len(cache) = CacheMaxSize) =>
          /\ Len(cache') = CacheMaxSize
          /\ SubSeq(cache', 1, Len(cache') - 1) = Tail(cache)
          /\ cache'[Len(cache')].key = got'.key
     /\ Len(cache') <= CacheMaxSize]_vars

\* C25: get(k) returns the value of the last set(k) while the time since
\* that set is at most the TTL (and the entry was not evicted for capacity
\* meanwhile); once the time exceeds the TTL it returns null and the entry
\* is gone; the entry keeps the timestamp of its set, so no get extends its
\* life.
C25_ExpiresAfterTtl ==
  [][(IsCacheCall("get") /\ got'.key \in DOMAIN lastSet) =>
       LET k == got'.key
           set == lastSet[k]
       IN IF clock - set.at > CacheTtl
          THEN got'.isNull /\ k \notin CacheKeysOf(cache')
          ELSE IF set.evicted
          THEN got'.isNull
          ELSE /\ ~got'.isNull /\ got'.value = set.value
               /\ CacheEntry(cache', k).timestamp = set.at]_vars

\* a get that returned null for a key set one tick more than the TTL
\* before and not evicted since, and removed its entry
C25_Witness ==
  /\ got.op = "get" /\ got.isNull
  /\ got.key \in DOMAIN lastSet
  /\ ~lastSet[got.key].evicted
  /\ clock - lastSet[got.key].at = CacheTtl + 1
  /\ got.key \notin CacheKeysOf(cache)

RECURSIVE CountOf(_, _)
CountOf(x, s) == IF s = <<>> THEN 0
                 ELSE (IF Head(s) = x THEN 1 ELSE 0) + CountOf(x, Tail(s))

\* the two lists hold the same ids, each as many times
SameBag(s, t) == \A x \in Range(s) \cup Range(t) : CountOf(x, s) = CountOf(x, t)

\* the lists that hold the ids of the list, in any order
PermutationsOf(ids) == {t \in IdLists : SameBag(ids, t)}

\* C26: the key computed for the id list of a call is the key of every
\* permutation of the list.
C26_KeyOrderIndependent ==
  got.op \in {"set", "categorize"} =>
    \A other \in PermutationsOf(got.ids) : generateCacheKey(other) = got.key

\* a request answered from the cache with the classifications stored for
\* the same ids in another order
C26_Witness ==
  /\ got.op = "categorize" /\ got.cached
  /\ got.ids # got.value.ids
  /\ SameBag(got.ids, got.value.ids)

\* C27: the key computed for the id list of a call is the key of no list
\* that differs from it as a multiset of ids, and a request is never
\* answered with classifications cached for other ids.
C27_KeysDistinct ==
  /\ got.op \in {"set", "categorize"} =>
       \A other \in IdLists :
         ~SameBag(got.ids, other) => generateCacheKey(other) # got.key
  /\ (got.op = "categorize" /\ got.cached) => SameBag(got.ids, got.value.ids)

\* the archive entries of the month in the Index
EntriesOf(index, month) ==
  LET IsMonth(e) == e.month = month IN SelectSeq(index.archives, IsMonth)

\* C28: an archive run for a month that already has an archive entry keeps
\* the records of the earlier run in the week documents of the month and
\* in getAllArticles({month}), and leaves one entry whose week list names
\* the week documents of the month and whose count is the number of records
\* in them.
C28_RerunMerges ==
  [][LET m == prevMonthKeyOf(clock, tz)
         before == ArchivedInMonths(Disk, {m})
         after == ArchivedInMonths(Disk', {m})
         entries == EntriesOf(Index', m)
     IN (IsCall("archive") /\ last'.done /\ EntriesOf(Index, m) # <<>>) =>
          /\ Range(before) \subseteq Range(after)
          /\ Range(before) \subseteq
               Range(getAllArticles(Disk', clock', [NoOptions EXCEPT !.month = m]).articles)
          /\ Len(entries) = 1
          /\ Range(entries[1].weeks) = {k[2] : k \in {q \in DOMAIN archiveFiles' : q[1] = m}}
          /\ entries[1].articleCount = Len(after)]_vars

\* the names of the week documents in the archive directory of the month
WeekDocsOf(d, month) == {k[2] : k \in {q \in DOMAIN d.archives : q[1] = month}}

\* C29: every month that has week documents has exactly one archive entry,
\* and for every entry of the Index's archives list: no other entry has its
\* month, its week file names are exactly the week documents of the month,
\* the records of those documents are records of that month and none is in
\* two of them, and its count is the number of records in them.
C29_ArchiveEntriesExact ==
  /\ \A m \in {k[1] : k \in DOMAIN archiveFiles} : Len(EntriesOf(Index, m)) = 1
  /\ \A i \in 1..Len(Index.archives) :
       LET e == Index.archives[i]
           records == ArchivedInMonths(Disk, {e.month})
       IN /\ Len(EntriesOf(Index, e.month)) = 1
          /\ Range(e.weeks) = WeekDocsOf(Disk, e.month)
          /\ Len(e.weeks) = Cardinality(WeekDocsOf(Disk, e.month))
          /\ \A a \in Range(records) : getMonthKey(a.savedAt) = e.month
          /\ \A j, k \in 1..Len(records) : records[j] = records[k] => j = k
          /\ DistinctLinks(records)
          /\ e.articleCount = Len(records)

\* after an archive run, an Index with an entry for a month whose records
\* are spread over two week documents
C29_Witness ==
  /\ last.op = "archive" /\ last.done
  /\ \E i \in 1..Len(Index.archives) :
       /\ Len(Index.archives[i].weeks) = 2
       /\ Index.archives[i].articleCount = 2

\* the calendar month before the month with key k
PrevMonthKey(k) == IF k[2] = 1 THEN <<k[1] - 1, MonthsPerYear>> ELSE <<k[1], k[2] - 1>>

\* C30: at every clock value and host timezone offset, the month key that
\* archivePreviousMonth takes as the previous month is the calendar month
\* before getMonthKey(now), and a run leaves in the Period Store no record
\* whose savedAt has that key.
C30_PrevKeyIsMonthBefore ==
  [][IsCall("archive") =>
       /\ prevMonthKeyOf(clock, tz) = PrevMonthKey(getMonthKey(clock))
       /\ \A r \in Range(PeriodArticles) :
            getMonthKey(r.savedAt) = PrevMonthKey(getMonthKey(clock)) =>
              r \notin Range(PeriodIn(Disk'))]_vars

\* C31: in every reachable state articleExists(l) is true exactly when a
\* record with link l is held in the Period Store or in an archive
\* partition of the storage the call has initialised.
C31_DedupEntryPerStoredLink ==
  LET d == loadIndex(Disk, clock).disk
  IN \A l \in Links :
       articleExists(Disk, clock, l) <=> l \in LinksIn(StoredIn(d))

\* every count of a stats map is positive: none is negative and no key is
\* kept with the count 0
CountsPositive(f) == \A k \in DOMAIN f : f[k] > 0

\* C32: after any sequence of saves and deletes, a delete made while the
\* Index was re-initialised as empty included, totalRecords is >= 0 and
\* every count of byCategory, bySource and byMonth is > 0.
C32_CountsNeverNegative ==
  /\ Index.totalArticles >= 0
  /\ CountsPositive(Index.byCategory)
  /\ CountsPositive(Index.bySource)
  /\ CountsPositive(Index.byMonth)

\* the Period Store document as loadArticlesFile reads it
PeriodFile == loadArticlesFile(Disk.current)

\* C33: in every reachable state either every record of the Period Store
\* has its savedAt in the month named by the store's month field, or the
\* month field still names the earlier month: no record was saved in a
\* month before it.
C33_PeriodStoreMonth ==
  LET m == PeriodFile.month
  IN \/ \A r \in Range(PeriodFile.articles) : getMonthKey(r.savedAt) = m
     \/ /\ MonthKeyLess(m, getMonthKey(clock))
        /\ \A r \in Range(PeriodFile.articles) : ~MonthKeyLess(getMonthKey(r.savedAt), m)

\* the count a stats map holds for key k: 0 when the key is absent
StatOf(f, k) == IF k \in DOMAIN f THEN f[k] ELSE 0

\* the records of the Period Store that a step takes out of it
RemovedFromPeriod == {r \in Range(PeriodArticles) : r \notin Range(PeriodIn(Disk'))}

\* C34: a deleteArticle(id) that returns true removes exactly one record
\* from the Period Store; the dedup entry removed is the one of that record,
\* and totalRecords and the counts of its category, source and month are
\* each one less than before.
C34_DeleteRemovesExactlyOne ==
  [][IsCall("delete") /\ last'.done =>
       /\ Len(PeriodIn(Disk')) = Len(PeriodArticles) - 1
       /\ \E r \in RemovedFromPeriod :
            /\ RemovedFromPeriod = {r}
            /\ DOMAIN Index'.urlIndex = (DOMAIN Index.urlIndex) \ {r.link}
            /\ r.link \in DOMAIN Index.urlIndex
            /\ Index'.totalArticles = Index.totalArticles - 1
            /\ StatOf(Index'.byCategory, r.category) = StatOf(Index.byCategory, r.category) - 1
            /\ StatOf(Index'.bySource, r.source) = StatOf(Index.bySource, r.source) - 1
            /\ StatOf(Index'.byMonth, getMonthKey(r.savedAt))
                 = StatOf(Index.byMonth, getMonthKey(r.savedAt)) - 1]_vars

\* initStorage() has nothing to create or migrate on disk d
Initialised(d) == d.index.present /\ d.current.present

\* the batches of a save, the empty one included
BatchesOrNone == Batches \cup {<<>>}

C36_RepeatedSaveAfterStop ==
  [][(inflight.procs[Server].pc = "stopped" /\ IsCall("save")) =>
       /\ DistinctLinks(PeriodIn(Disk'))
       /\ Index'.totalArticles = Len(StoredIn(Disk'))]_vars

\* the number of stored records with link l on disk d
TimesStored(d, l) ==
  Cardinality({i \in 1..Len(StoredIn(d)) : StoredIn(d)[i].link = l})

\* the run whose save this step is
SavingRun(p) == inflight.procs[p].pc = "filtered" /\ inflight'.procs[p].pc = "idle"

\* C37: when a run of the pipeline saves, every link it saves is stored
\* exactly once afterwards, and a link that another run stored after this
\* run's pre-filter is counted as a duplicate by this save.
C37_OverlappingRunsStoreOnce ==
  [][\A p \in Procs :
       SavingRun(p) =>
         /\ \A l \in LinksIn(inflight.procs[p].batch) : TimesStored(Disk', l) = 1
         /\ last'.saved + last'.duplicates = Len(inflight.procs[p].batch)
         /\ (\E l \in LinksIn(inflight.procs[p].batch) : l \in LinksIn(StoredArticles))
              => last'.duplicates > 0]_vars

\* two runs passed the pre-filter with the same link before either saved,
\* both have saved, and the later save stored nothing
C37_Witness ==
  /\ inflight.overlapped
  /\ AllProcsIdle
  /\ last.op = "save" /\ last.saved = 0 /\ last.duplicates > 0
  /\ \E l \in inflight.saved : TimesStored(Disk, l) = 1

\* the sum of the articleCount fields of the rows
RECURSIVE SumCounts(_)
SumCounts(rows) == IF rows = <<>> THEN 0
                   ELSE Head(rows).articleCount + SumCounts(Tail(rows))

\* C38: in every reachable state, a stored record is returned by
\* getAllArticles({month: m}) with m the month key of its savedAt, and the
\* counts listed by getAvailableMonths() add up to totalRecords.
C38_ReachableByMonth ==
  LET d == loadIndex(Disk, clock).disk
  IN /\ \A r \in Range(StoredIn(d)) :
          r \in Range(getAllArticles(d, clock,
                        [NoOptions EXCEPT !.month = getMonthKey(r.savedAt)]).articles)
     /\ SumCounts(getAvailableMonths(d, clock)) = IndexIn(d).totalArticles

\* the keys a step takes out of the cache
EvictedKeys == CacheKeysOf(cache) \ CacheKeysOf(cache')

\* C39: a successful get(k) and a set(k, v) leave k as the most recently
\* used entry; a set of a new key evicts at most one entry, the one whose
\* last get or set is the oldest; a set of a key already present evicts no
\* other key.
C39_RecencyOrder ==
  [][/\ (got'.op = "get" /\ calls' = calls + 1 /\ ~got'.isNull) =>
          /\ cache'[Len(cache')].key = got'.key
          /\ EvictedKeys = {}
     /\ (got'.op = "set" /\ calls' = calls + 1) =>
          /\ cache'[Len(cache')].key = got'.key
          /\ IF got'.key \in CacheKeysOf(cache)
             THEN EvictedKeys = {}
             ELSE /\ Cardinality(EvictedKeys) <= 1
                  /\ \A e \in EvictedKeys :
                       \A x \in CacheKeysOf(cache) : lastSet[e] <= lastSet[x]]_vars

====
